---- MODULE Spec2Model ----
(***************************************************************************)
(* Persistence layer of bolt-diy on Cloudflare: the relational store (D1), *)
(* the object store (R2), the file manager that writes to both, and the    *)
(* process-wide coordination context created by the root loader.           *)
(*                                                                         *)
(* Every request is a process p.  A request runs synchronously up to its   *)
(* next awaited backend call, so one action is one backend call together   *)
(* with the synchronous code that follows it.  A backend call either takes *)
(* effect or fails without effect (parameter ok).                          *)
(*                                                                         *)
(* Strings that the code computes with (chat ids, urlIds) are sequences of *)
(* one-character strings; strings the code only stores are plain tokens.   *)
(***************************************************************************)
EXTENDS Integers, Sequences, FiniteSets, TLC

\* ---------------------------------------------------------------- bounds
NProc == 2
MaxFiles == 2
MaxChatId == 3
MaxDescLen == 2

Procs == 1..NProc
FileIds == 1..MaxFiles

\* ------------------------------------------------------- values and text
\* SQL NULL / JS null or undefined for character-sequence strings.
NULL == <<"<null>">>
\* JS undefined / SQL NULL for token strings.
UNDEF == "<undefined>"
\* new Date().toISOString()
NOW == "2026-01-01T00:00:00.000Z"

Digits == <<"0", "1", "2", "3", "4", "5", "6", "7", "8", "9">>

IsDigit(c) == \E d \in 1..10 : Digits[d] = c

DigitVal(c) == (CHOOSE d \in 1..10 : Digits[d] = c) - 1

\* String(n) for a natural number n < 100.
StrNat(n) == IF n < 10 THEN <<Digits[n + 1]>>
             ELSE <<Digits[(n \div 10) + 1], Digits[(n % 10) + 1]>>

\* String(n) for an integer n, -100 < n < 100.
Str(n) == IF n < 0 THEN <<"-">> \o StrNat(0 - n) ELSE StrNat(n)

RECURSIVE DigitPrefixValue(_, _)
DigitPrefixValue(s, acc) ==
  IF s = <<>> \/ ~IsDigit(Head(s)) THEN acc
  ELSE DigitPrefixValue(Tail(s), acc * 10 + DigitVal(Head(s)))

\* SQLite CAST(text AS INTEGER): the longest numeric prefix, 0 when none.
CastInteger(s) ==
  IF s = NULL THEN 0
  ELSE IF s # <<>> /\ Head(s) = "-" THEN 0 - DigitPrefixValue(Tail(s), 0)
  ELSE DigitPrefixValue(s, 0)

\* A message field value: a string, a Date object, or no value.
StrVal(s) == [t |-> "string", v |-> s]
DateVal(s) == [t |-> "Date", v |-> s]
NoVal == [t |-> "undefined", v |-> ""]

Msg(id, content, createdAt) ==
  [id |-> id, role |-> "user", content |-> content, createdAt |-> createdAt]

\* JSON.stringify of one value: a Date is written as its ISO string.
JSONValue(x) == IF x.t = "Date" THEN StrVal(x.v) ELSE x

\* JSON.stringify(messages): the text of the array.
JSONstringify(msgs) ==
  [text |-> [i \in 1..Len(msgs) |->
               [msgs[i] EXCEPT !.createdAt = JSONValue(msgs[i].createdAt)]]]

\* JSON.parse(text)
JSONparse(json) == json.text

\* metadata ? JSON.stringify(metadata) : null
MetadataStr(metadata) == IF metadata = UNDEF THEN NULL ELSE <<"json", metadata>>

\* row.metadata ? JSON.parse(row.metadata) : undefined
MetadataParse(text) == IF text = NULL THEN UNDEF ELSE text[2]

\* Date.parse(timestamp) is NaN
ValidDates == {NOW, "2024-05-01T10:00:00.000Z"}
IsNaNDate(timestamp) == timestamp \notin ValidDates

\* JS truthiness of an optional token string
Truthy(x) == x # UNDEF /\ x # ""

\* new TextEncoder().encode(fileData).length
ByteLength(data) == IF data = "hi" THEN 2 ELSE IF data = "hello" THEN 5 ELSE 0

\* ------------------------------------------------------------ the state
VARIABLES
  tables,      \* D1: names of the tables that exist
  chats,       \* D1 chats: id -> row
  snapshots,   \* D1 snapshots: chatId -> data
  files,       \* D1 files: id -> row
  blobs,       \* R2 bucket: key -> object
  uuidCount,   \* number of ids crypto.randomUUID() has produced
  cfContext,   \* root.tsx: the process-wide context, or "null"
  initialized, \* CloudflareContext.initialized
  issued,      \* ids returned so far by createChatFromMessages
  pc,          \* per request: the backend call it awaits
  req,         \* per request: the operation and its arguments
  loc,         \* per request: local variables
  result,      \* per request: what the call returned or threw
  calls,       \* per request: backend calls issued so far
  kv           \* KV namespace: key -> stored text and expiration TTL

vars == <<tables, chats, snapshots, files, blobs, uuidCount, cfContext,
          initialized, issued, pc, req, loc, result, calls, kv>>

dbVars == <<tables, chats, snapshots, files>>
ctxVars == <<cfContext, initialized>>

\* Tables created by initializeDatabase, and by schema.sql.
InitTables == {"chats", "snapshots"}
SchemaTables == {"chats", "snapshots", "files"}

EmptyFn == [k \in {} |-> 0]

Put(f, k, v) == [x \in DOMAIN f \cup {k} |-> IF x = k THEN v ELSE f[x]]
Drop(f, ks) == [x \in DOMAIN f \ ks |-> f[x]]

\* A ChatHistoryItem as the read functions build it from a row.
NoChat == [id |-> NULL, urlId |-> NULL, messages |-> <<>>, description |-> NULL,
           timestamp |-> UNDEF, metadata |-> UNDEF]

NoReq == [op |-> "none", id |-> NULL, fileId |-> 0, messages |-> <<>>,
          urlId |-> NULL, description |-> NULL, timestamp |-> UNDEF,
          metadata |-> UNDEF, chatId |-> NULL, path |-> UNDEF, data |-> UNDEF,
          messageId |-> UNDEF, snapshot |-> UNDEF, kind |-> UNDEF, ttl |-> 0,
          customMetadata |-> EmptyFn, pattern |-> <<>>, route |-> "none",
          method |-> "GET", provider |-> UNDEF, apiKey |-> UNDEF]

NoLoc == [id |-> NULL, urlId |-> NULL, fileId |-> 0, description |-> NULL,
          messages |-> <<>>, metadata |-> UNDEF, data |-> UNDEF, keys |-> EmptyFn,
          idList |-> {}, i |-> 0]

NoResult == [status |-> "none", error |-> "", id |-> NULL, urlId |-> NULL, fileId |-> 0,
             chat |-> NoChat, found |-> FALSE, rows |-> {}, data |-> UNDEF,
             customMetadata |-> EmptyFn, http |-> 0, body |-> "",
             maskedKeys |-> EmptyFn, returned |-> {}]

Ok == [NoResult EXCEPT !.status = "ok"]
Err(e) == [NoResult EXCEPT !.status = "error", !.error = e]

Idle(p) == pc[p] \in {"idle", "done"}

\* A request starts: arguments are bound and the first await is reached.
Start(p, r, l, at) ==
  /\ Idle(p)
  /\ req' = [req EXCEPT ![p] = r]
  /\ loc' = [loc EXCEPT ![p] = l]
  /\ pc' = [pc EXCEPT ![p] = at]
  /\ result' = [result EXCEPT ![p] = NoResult]
  /\ calls' = [calls EXCEPT ![p] = <<>>]

\* The awaited call returned and the request moves on to its next await.
Step(p, call, at) ==
  /\ pc' = [pc EXCEPT ![p] = at]
  /\ calls' = [calls EXCEPT ![p] = Append(@, call)]
  /\ result' = result
  /\ req' = req

\* A route's Response: status code and message.
Response(res, http, body) == [res EXCEPT !.http = http, !.body = body]

\* The message of the catch block of each route.
FailureBody(route) ==
  CASE route = "download" -> "Failed to download file"
    [] route = "delete-file" -> "Failed to delete file"
    [] route = "files" -> "Failed to list files"
    [] route = "search-files" -> "Failed to search files"
    [] route = "file-upload" -> "Failed to upload file"
    [] route = "api-keys" -> "Failed to manage API keys"
    [] route = "api-keys-list" -> "Failed to retrieve API keys"

\* A route without try/catch: the error leaves the handler.
RouteCatchRethrows(route, res) == res

\* catch (error) { logger.error(...); return <status 500> }
RouteCatch(route, res) == Response(res, 500, FailureBody(route))

\* The end of a route handler: the success response after the last await,
\* or the catch block; res stands when it already is a response or when the
\* operation was not called by a route.
Respond(r, res) ==
  IF r.route = "none" \/ res.http # 0 THEN res
  ELSE IF res.status = "error" THEN RouteCatch(r.route, res)
  ELSE Response(res, 200, "success")

\* useCloudflareApiKeys.getApiKeys after its fetch: a response that is not
\* ok or not a success throws inside the try block, whose catch block logs
\* and returns []; otherwise the entries of maskedKeys are returned.
HookReturn(hook, res) ==
  IF ~hook THEN res
  ELSE IF res.http # 200 THEN [res EXCEPT !.status = "ok", !.returned = {}]
  ELSE [res EXCEPT !.returned =
          {<<provider, res.maskedKeys[provider]>> : provider \in DOMAIN res.maskedKeys}]

\* The awaited call returned (or threw) and the request ends with res.
Finish(p, call, res) ==
  /\ pc' = [pc EXCEPT ![p] = "done"]
  /\ calls' = [calls EXCEPT ![p] = Append(@, call)]
  /\ result' = [result EXCEPT ![p] = Respond(req[p], res)]
  /\ req' = req
  /\ loc' = loc

\* ------------------------------------------------------------ D1 engine
\* Outcome of a statement on table t: the backend is down, or the table is
\* missing, or the statement runs.
D1Error(ok, t) ==
  IF ~ok THEN "D1 unavailable"
  ELSE IF t \notin tables THEN "no such table"
  ELSE ""

\* A files table whose foreign key is not enforced.
ForeignKeyOff(chatId) == TRUE

\* FOREIGN KEY (chatId) REFERENCES chats(id): a non-null parent must exist.
ForeignKeyOk(chatId) == chatId = NULL \/ chatId \in DOMAIN chats

\* ON DELETE CASCADE on snapshots.chatId and files.chatId.
CascadeSnapshots(snaps, id) == Drop(snaps, {id})

\* A files table whose foreign key does not cascade.
CascadeFilesNone(rows, id) == rows

CascadeFiles(rows, id) == Drop(rows, {f \in DOMAIN rows : rows[f].chatId = id})

\* ---------------------------------------------------------------- Init
\* Process start: no context yet.  The database is empty, or schema.sql
\* was applied to it at deployment (deploy-cloudflare.sh).
Init ==
  /\ tables \in {{}, SchemaTables}
  /\ chats = EmptyFn
  /\ snapshots = EmptyFn
  /\ files = EmptyFn
  /\ blobs = EmptyFn
  /\ uuidCount = 0
  /\ cfContext = "null"
  /\ initialized = FALSE
  /\ issued = {}
  /\ pc = [p \in Procs |-> "idle"]
  /\ req = [p \in Procs |-> NoReq]
  /\ loc = [p \in Procs |-> NoLoc]
  /\ result = [p \in Procs |-> NoResult]
  /\ calls = [p \in Procs |-> <<>>]
  /\ kv = EmptyFn

\* The state after one root-loader request has run to completion with a
\* successful initialize(): the context exists and is initialized.
InitReady ==
  /\ tables \in {InitTables, SchemaTables}
  /\ chats = EmptyFn
  /\ snapshots = EmptyFn
  /\ files = EmptyFn
  /\ blobs = EmptyFn
  /\ uuidCount = 0
  /\ cfContext = "ctx"
  /\ initialized = TRUE
  /\ issued = {}
  /\ pc = [p \in Procs |-> "idle"]
  /\ req = [p \in Procs |-> NoReq]
  /\ loc = [p \in Procs |-> NoLoc]
  /\ result = [p \in Procs |-> NoResult]
  /\ calls = [p \in Procs |-> <<>>]
  /\ kv = EmptyFn

\* --------------------------------------------------- CloudflareFileManager
\* Ids of storeFile calls that have not returned: nobody else knows them.
InFlightFileIds ==
  {loc[q].fileId : q \in {x \in Procs : req[x].op = "storeFile" /\ ~Idle(x)}}

\* The ids a caller can pass: an id some storeFile call has returned or
\* thrown with, or a string that is no file's id (0).  A random UUID is
\* not known to anyone before its storeFile call ends.
KnownFileIds == {0} \cup ((1..uuidCount) \ InFlightFileIds)

\* storeFile(fileData, path, chatId): const id = crypto.randomUUID(), then
\* the request awaits storage.storeFile.
CallStoreFile(p, data, path, chatId) ==
  /\ cfContext # "null"
  /\ uuidCount < MaxFiles
  /\ uuidCount' = uuidCount + 1
  /\ Start(p, [NoReq EXCEPT !.op = "storeFile", !.data = data, !.path = path,
                            !.chatId = chatId],
              [NoLoc EXCEPT !.fileId = uuidCount + 1], "storeFile:put")
  /\ UNCHANGED <<dbVars, blobs, ctxVars, issued, kv>>

\* The R2 object written by storage.storeFile(id, fileData, {path, chatId}).
BlobOf(r) == [data |-> r.data, customMetadata |-> [path |-> r.path, chatId |-> r.chatId]]

\* A key that is not the file id (the path, say).
R2KeyOfPath(p) == 0

\* The key storeFile passes to storage.storeFile: the generated id.  The
\* context builds the storage without a prefix, so getFullKey(key) = key.
R2KeyOf(p) == loc[p].fileId

\* storeFile that carries on to the row insert after a failed blob write.
StoreFilePutSwallow(p, ok) ==
  /\ pc[p] = "storeFile:put"
  /\ blobs' = IF ok THEN Put(blobs, R2KeyOf(p), BlobOf(req[p])) ELSE blobs
  /\ Step(p, "r2.put", "storeFile:insert")
  /\ loc' = loc
  /\ UNCHANGED <<dbVars, uuidCount, ctxVars, issued, kv>>

\* await this.storage.storeFile(...): bucket.put; on failure the catch
\* block rethrows and no row is written.
StoreFilePut(p, ok) ==
  /\ pc[p] = "storeFile:put"
  /\ IF ok
     THEN /\ blobs' = Put(blobs, R2KeyOf(p), BlobOf(req[p]))
          /\ Step(p, "r2.put", "storeFile:insert")
          /\ loc' = loc
     ELSE /\ blobs' = blobs
          /\ Finish(p, "r2.put", Err("R2 unavailable"))
  /\ UNCHANGED <<dbVars, uuidCount, ctxVars, issued, kv>>

\* chatId || null
OrNull(s) == IF s = <<>> THEN NULL ELSE s

\* The row bound by INSERT INTO files (id, chatId, path, size, timestamp).
FileRowOf(r) == [chatId |-> OrNull(r.chatId), path |-> r.path,
                 size |-> ByteLength(r.data), timestamp |-> NOW]

\* storeFile that deletes the blob again when the row insert fails.
StoreFileInsertCompensate(p, ok) ==
  /\ pc[p] = "storeFile:insert"
  /\ LET e == IF D1Error(ok, "files") # "" THEN D1Error(ok, "files")
              ELSE IF ~ForeignKeyOk(OrNull(req[p].chatId)) THEN "FOREIGN KEY constraint failed"
              ELSE ""
     IN IF e = ""
        THEN /\ files' = Put(files, loc[p].fileId, FileRowOf(req[p]))
             /\ blobs' = blobs
             /\ Finish(p, "d1.insert", [Ok EXCEPT !.fileId = loc[p].fileId])
        ELSE /\ files' = files
             /\ blobs' = Drop(blobs, {loc[p].fileId})
             /\ Finish(p, "d1.insert", Err(e))
  /\ UNCHANGED <<tables, chats, snapshots, uuidCount, ctxVars, issued, kv>>

\* INSERT INTO files ... run(): fails when the backend is down, the table is
\* missing or the foreign key has no parent; the blob is left in place.
StoreFileInsert(p, ok) ==
  /\ pc[p] = "storeFile:insert"
  /\ LET e == IF D1Error(ok, "files") # "" THEN D1Error(ok, "files")
              ELSE IF ~ForeignKeyOk(OrNull(req[p].chatId)) THEN "FOREIGN KEY constraint failed"
              ELSE IF loc[p].fileId \in DOMAIN files THEN "UNIQUE constraint failed"
              ELSE ""
     IN IF e = ""
        THEN /\ files' = Put(files, loc[p].fileId, FileRowOf(req[p]))
             /\ Finish(p, "d1.insert", [Ok EXCEPT !.fileId = loc[p].fileId])
        ELSE /\ files' = files
             /\ Finish(p, "d1.insert", Err(e))
  /\ UNCHANGED <<tables, chats, snapshots, blobs, uuidCount, ctxVars, issued, kv>>

\* deleteFile(id), for an id a caller can know.
CallDeleteFile(p, f) ==
  /\ cfContext # "null"
  /\ f \in KnownFileIds
  /\ Start(p, [NoReq EXCEPT !.op = "deleteFile", !.fileId = f], NoLoc, "deleteFile:r2")
  /\ UNCHANGED <<dbVars, blobs, uuidCount, ctxVars, issued, kv>>

\* deleteFile that carries on to the row delete after a failed blob delete.
DeleteFileBlobSwallow(p, ok) ==
  /\ pc[p] = "deleteFile:r2"
  /\ blobs' = IF ok THEN Drop(blobs, {req[p].fileId}) ELSE blobs
  /\ Step(p, "r2.delete", "deleteFile:d1")
  /\ loc' = loc
  /\ UNCHANGED <<dbVars, uuidCount, ctxVars, issued, kv>>

\* A blob delete that reports an error when there is no blob to delete.
DeleteFileBlobStrict(p, ok) ==
  /\ pc[p] = "deleteFile:r2"
  /\ IF ok /\ req[p].fileId \in DOMAIN blobs
     THEN /\ blobs' = Drop(blobs, {req[p].fileId})
          /\ Step(p, "r2.delete", "deleteFile:d1")
          /\ loc' = loc
     ELSE /\ blobs' = blobs
          /\ Finish(p, "r2.delete", Err("R2 unavailable"))
  /\ UNCHANGED <<dbVars, uuidCount, ctxVars, issued, kv>>

\* await this.storage.deleteFile(id): bucket.delete is a no-op on a missing
\* key; on failure the catch block rethrows before the row delete.
DeleteFileBlob(p, ok) ==
  /\ pc[p] = "deleteFile:r2"
  /\ IF ok
     THEN /\ blobs' = Drop(blobs, {req[p].fileId})
          /\ Step(p, "r2.delete", "deleteFile:d1")
          /\ loc' = loc
     ELSE /\ blobs' = blobs
          /\ Finish(p, "r2.delete", Err("R2 unavailable"))
  /\ UNCHANGED <<dbVars, uuidCount, ctxVars, issued, kv>>

\* A row delete that reports an error when it deleted no row.
DeleteFileRowStrict(p, ok) ==
  /\ pc[p] = "deleteFile:d1"
  /\ IF D1Error(ok, "files") = "" /\ req[p].fileId \in DOMAIN files
     THEN /\ files' = Drop(files, {req[p].fileId})
          /\ Finish(p, "d1.delete", Ok)
     ELSE /\ files' = files
          /\ Finish(p, "d1.delete",
                    Err(IF D1Error(ok, "files") = "" THEN "File not found"
                        ELSE D1Error(ok, "files")))
  /\ UNCHANGED <<tables, chats, snapshots, blobs, uuidCount, ctxVars, issued, kv>>

\* DELETE FROM files WHERE id = ?
DeleteFileRow(p, ok) ==
  /\ pc[p] = "deleteFile:d1"
  /\ IF D1Error(ok, "files") = ""
     THEN /\ files' = Drop(files, {req[p].fileId})
          /\ Finish(p, "d1.delete", Ok)
     ELSE /\ files' = files
          /\ Finish(p, "d1.delete", Err(D1Error(ok, "files")))
  /\ UNCHANGED <<tables, chats, snapshots, blobs, uuidCount, ctxVars, issued, kv>>

\* ------------------------------------------------------------ cloudflare-db
\* An upsert that overwrites with whatever was supplied.
CoalesceOverwrite(new, old) == new

\* COALESCE(?, column)
Coalesce(new, old) == IF new # NULL THEN new ELSE old

\* A chats table without the UNIQUE constraint on urlId.
UrlIdTakenNever(rows, id, urlId) == FALSE

\* urlId TEXT UNIQUE: another row already holds this non-null urlId.
UrlIdTaken(rows, id, urlId) ==
  urlId # NULL /\ \E k \in DOMAIN rows \ {id} : rows[k].urlId = urlId

\* The row left by INSERT ... ON CONFLICT (id) DO UPDATE SET ...
UpsertRow(rows, id, urlId, messagesStr, description, timestamp, metadataStr) ==
  IF id \in DOMAIN rows
  THEN [urlId |-> Coalesce(urlId, rows[id].urlId),
        messages |-> messagesStr,
        description |-> Coalesce(description, rows[id].description),
        timestamp |-> timestamp,
        metadata |-> Coalesce(metadataStr, rows[id].metadata)]
  ELSE [urlId |-> urlId, messages |-> messagesStr, description |-> description,
        timestamp |-> timestamp, metadata |-> metadataStr]

\* timestamp ?? new Date().toISOString()
FinalTimestamp(timestamp) == IF timestamp = UNDEF THEN NOW ELSE timestamp

\* The row setMessages writes for request r, given the rows present.
SetMessagesRow(rows, r) ==
  UpsertRow(rows, r.id, r.urlId, JSONstringify(r.messages), r.description,
            FinalTimestamp(r.timestamp), MetadataStr(r.metadata))

\* The statement of setMessages: error text, or "" when it runs.
SetMessagesError(ok, r) ==
  IF D1Error(ok, "chats") # "" THEN D1Error(ok, "chats")
  ELSE IF UrlIdTaken(chats, r.id, SetMessagesRow(chats, r).urlId)
       THEN "UNIQUE constraint failed: chats.urlId"
  ELSE ""

\* The ChatHistoryItem built from a row.
ChatItem(id, row) ==
  [id |-> id, urlId |-> row.urlId, messages |-> JSONparse(row.messages),
   description |-> row.description, timestamp |-> row.timestamp,
   metadata |-> MetadataParse(row.metadata)]

\* setMessages(db, id, messages, urlId, description, timestamp, metadata):
\* the timestamp check runs before the statement is issued.
CallSetMessages(p, id, messages, urlId, description, timestamp, metadata) ==
  /\ cfContext # "null"
  /\ LET r == [NoReq EXCEPT !.op = "setMessages", !.id = id, !.messages = messages,
                            !.urlId = urlId, !.description = description,
                            !.timestamp = timestamp, !.metadata = metadata]
     IN IF Truthy(timestamp) /\ IsNaNDate(timestamp)
        THEN /\ Idle(p)
             /\ req' = [req EXCEPT ![p] = r]
             /\ loc' = [loc EXCEPT ![p] = NoLoc]
             /\ pc' = [pc EXCEPT ![p] = "done"]
             /\ result' = [result EXCEPT ![p] = Err("Invalid timestamp")]
             /\ calls' = [calls EXCEPT ![p] = <<>>]
        ELSE Start(p, r, NoLoc, "setMessages:run")
  /\ UNCHANGED <<dbVars, blobs, uuidCount, ctxVars, issued, kv>>

\* INSERT INTO chats ... ON CONFLICT (id) DO UPDATE ... run()
SetMessagesRun(p, ok) ==
  /\ pc[p] = "setMessages:run"
  /\ IF SetMessagesError(ok, req[p]) = ""
     THEN /\ chats' = Put(chats, req[p].id, SetMessagesRow(chats, req[p]))
          /\ Finish(p, "d1.upsert", Ok)
     ELSE /\ chats' = chats
          /\ Finish(p, "d1.upsert", Err(SetMessagesError(ok, req[p])))
  /\ UNCHANGED <<tables, snapshots, files, blobs, uuidCount, ctxVars, issued, kv>>

\* DELETE FROM chats WHERE id = ?, with the cascades of the schema.
CallDeleteChat(p, id) ==
  /\ cfContext # "null"
  /\ Start(p, [NoReq EXCEPT !.op = "deleteChat", !.id = id], NoLoc, "deleteById:run")
  /\ UNCHANGED <<dbVars, blobs, uuidCount, ctxVars, issued, kv>>

\* A deleteById that also removes the blobs of the chat's files.
DeleteByIdRunWithBlobs(p, ok) ==
  /\ pc[p] = "deleteById:run"
  /\ IF D1Error(ok, "chats") = ""
     THEN /\ chats' = Drop(chats, {req[p].id})
          /\ snapshots' = CascadeSnapshots(snapshots, req[p].id)
          /\ files' = CascadeFiles(files, req[p].id)
          /\ blobs' = Drop(blobs, {f \in DOMAIN files : files[f].chatId = req[p].id})
          /\ Finish(p, "d1.delete", Ok)
     ELSE /\ UNCHANGED <<chats, snapshots, files, blobs>>
          /\ Finish(p, "d1.delete", Err(D1Error(ok, "chats")))
  /\ UNCHANGED <<tables, uuidCount, ctxVars, issued, kv>>

DeleteByIdRun(p, ok) ==
  /\ pc[p] = "deleteById:run"
  /\ IF D1Error(ok, "chats") = ""
     THEN /\ chats' = Drop(chats, {req[p].id})
          /\ snapshots' = CascadeSnapshots(snapshots, req[p].id)
          /\ files' = CascadeFiles(files, req[p].id)
          /\ Finish(p, "d1.delete", Ok)
     ELSE /\ UNCHANGED <<chats, snapshots, files>>
          /\ Finish(p, "d1.delete", Err(D1Error(ok, "chats")))
  /\ UNCHANGED <<tables, blobs, uuidCount, ctxVars, issued, kv>>

\* setSnapshot(db, chatId, snapshot): INSERT ... ON CONFLICT (chatId) DO UPDATE
CallSetSnapshot(p, chatId, snapshot) ==
  /\ cfContext # "null"
  /\ Start(p, [NoReq EXCEPT !.op = "setSnapshot", !.chatId = chatId,
                            !.snapshot = snapshot], NoLoc, "setSnapshot:run")
  /\ UNCHANGED <<dbVars, blobs, uuidCount, ctxVars, issued, kv>>

\* A setSnapshot that keeps the snapshot a chat already has.
SetSnapshotRunKeep(p, ok) ==
  /\ pc[p] = "setSnapshot:run"
  /\ LET e == IF D1Error(ok, "snapshots") # "" THEN D1Error(ok, "snapshots")
              ELSE IF req[p].chatId \notin DOMAIN chats THEN "FOREIGN KEY constraint failed"
              ELSE ""
     IN IF e = ""
        THEN /\ snapshots' = IF req[p].chatId \in DOMAIN snapshots THEN snapshots
                             ELSE Put(snapshots, req[p].chatId, <<"json", req[p].snapshot>>)
             /\ Finish(p, "d1.upsert", Ok)
        ELSE /\ snapshots' = snapshots
             /\ Finish(p, "d1.upsert", Err(e))
  /\ UNCHANGED <<tables, chats, files, blobs, uuidCount, ctxVars, issued, kv>>

SetSnapshotRun(p, ok) ==
  /\ pc[p] = "setSnapshot:run"
  /\ LET e == IF D1Error(ok, "snapshots") # "" THEN D1Error(ok, "snapshots")
              ELSE IF req[p].chatId \notin DOMAIN chats THEN "FOREIGN KEY constraint failed"
              ELSE ""
     IN IF e = ""
        THEN /\ snapshots' = Put(snapshots, req[p].chatId, <<"json", req[p].snapshot>>)
             /\ Finish(p, "d1.upsert", Ok)
        ELSE /\ snapshots' = snapshots
             /\ Finish(p, "d1.upsert", Err(e))
  /\ UNCHANGED <<tables, chats, files, blobs, uuidCount, ctxVars, issued, kv>>

\* The request continues with createChatFromMessages(description, messages,
\* metadata): its first await is the query of getNextId.
ToCreate(p, description, messages, metadata) ==
  [loc[p] EXCEPT !.description = description, !.messages = messages,
                 !.metadata = metadata]

\* A copy that keeps the description as it is.
DescribedSame(description, suffix, fallback) == description

\* chat.description ? `${chat.description} (suffix)` : fallback
Described(description, suffix, fallback) ==
  IF description # NULL /\ description # <<>>
  THEN description \o <<suffix>> ELSE <<fallback>>

\* chat.messages.findIndex((msg) => msg.id === messageId), 1-based; 0 = none
FindIndex(messages, messageId) ==
  IF \E i \in 1..Len(messages) : messages[i].id = messageId
  THEN CHOOSE i \in 1..Len(messages) :
         /\ messages[i].id = messageId
         /\ \A j \in 1..(i - 1) : messages[j].id # messageId
  ELSE 0

\* getMessages found the chat (or found none): what the caller does next.
\* getMessages returns it; forkChat and duplicateChat throw on none and
\* otherwise go on to create the new chat.
AfterGetMessages(p, call, found, chat) ==
  IF req[p].op = "getMessages"
  THEN Finish(p, call, [Ok EXCEPT !.found = found, !.chat = chat])
  ELSE IF ~found
  THEN Finish(p, call, Err("Chat not found"))
  ELSE IF req[p].op = "forkChat"
  THEN IF FindIndex(chat.messages, req[p].messageId) = 0
       THEN Finish(p, call, Err("Message not found"))
       ELSE /\ Step(p, call, "create:getNextId")
            /\ loc' = [loc EXCEPT ![p] =
                 ToCreate(p, Described(chat.description, " (fork)", "Forked chat"),
                          SubSeq(chat.messages, 1, FindIndex(chat.messages, req[p].messageId)),
                          UNDEF)]
  ELSE /\ Step(p, call, "create:getNextId")
       /\ loc' = [loc EXCEPT ![p] =
            ToCreate(p, Described(chat.description, " (copy)", "Duplicated chat"),
                     chat.messages, chat.metadata)]

\* getMessages(db, id), also the first step of forkChat and duplicateChat.
CallGetMessages(p, id) ==
  /\ cfContext # "null"
  /\ Start(p, [NoReq EXCEPT !.op = "getMessages", !.id = id], NoLoc, "getMessages:byId")
  /\ UNCHANGED <<dbVars, blobs, uuidCount, ctxVars, issued, kv>>

\* A lookup that tries the urlId before the id.
GetMessagesByUrlIdFirst(p, ok) ==
  /\ pc[p] = "getMessages:byId"
  /\ IF D1Error(ok, "chats") # ""
     THEN Finish(p, "d1.select", Err(D1Error(ok, "chats")))
     ELSE IF \E k \in DOMAIN chats : chats[k].urlId = req[p].id
     THEN LET k == CHOOSE k \in DOMAIN chats : chats[k].urlId = req[p].id
          IN AfterGetMessages(p, "d1.select", TRUE, ChatItem(k, chats[k]))
     ELSE IF req[p].id \in DOMAIN chats
     THEN AfterGetMessages(p, "d1.select", TRUE, ChatItem(req[p].id, chats[req[p].id]))
     ELSE /\ Step(p, "d1.select", "getMessages:byUrlId")
          /\ loc' = loc
  /\ UNCHANGED <<dbVars, blobs, uuidCount, ctxVars, issued, kv>>

\* getMessagesById: SELECT * FROM chats WHERE id = ?
GetMessagesById(p, ok) ==
  /\ pc[p] = "getMessages:byId"
  /\ IF D1Error(ok, "chats") # ""
     THEN Finish(p, "d1.select", Err(D1Error(ok, "chats")))
     ELSE IF req[p].id \in DOMAIN chats
     THEN AfterGetMessages(p, "d1.select", TRUE, ChatItem(req[p].id, chats[req[p].id]))
     ELSE /\ Step(p, "d1.select", "getMessages:byUrlId")
          /\ loc' = loc
  /\ UNCHANGED <<dbVars, blobs, uuidCount, ctxVars, issued, kv>>

\* A urlId lookup that throws when no row matches.
GetMessagesByUrlIdThrows(p, ok) ==
  /\ pc[p] = "getMessages:byUrlId"
  /\ IF D1Error(ok, "chats") # ""
     THEN Finish(p, "d1.select", Err(D1Error(ok, "chats")))
     ELSE IF \E k \in DOMAIN chats : chats[k].urlId = req[p].id
     THEN LET k == CHOOSE k \in DOMAIN chats : chats[k].urlId = req[p].id
          IN AfterGetMessages(p, "d1.select", TRUE, ChatItem(k, chats[k]))
     ELSE Finish(p, "d1.select", Err("Chat not found"))
  /\ UNCHANGED <<dbVars, blobs, uuidCount, ctxVars, issued, kv>>

\* getMessagesByUrlId: SELECT * FROM chats WHERE urlId = ?
GetMessagesByUrlId(p, ok) ==
  /\ pc[p] = "getMessages:byUrlId"
  /\ IF D1Error(ok, "chats") # ""
     THEN Finish(p, "d1.select", Err(D1Error(ok, "chats")))
     ELSE IF \E k \in DOMAIN chats : chats[k].urlId = req[p].id
     THEN LET k == CHOOSE k \in DOMAIN chats : chats[k].urlId = req[p].id
          IN AfterGetMessages(p, "d1.select", TRUE, ChatItem(k, chats[k]))
     ELSE AfterGetMessages(p, "d1.select", FALSE, NoChat)
  /\ UNCHANGED <<dbVars, blobs, uuidCount, ctxVars, issued, kv>>

\* A highest id that is the number of rows.
HighestIdByCount(rows) == Cardinality(DOMAIN rows)

\* results[0]?.maxId || 0 for SELECT MAX(CAST(id AS INTEGER)) FROM chats:
\* MAX over no rows is NULL, which || turns into 0.
HighestId(rows) ==
  IF DOMAIN rows = {} THEN 0
  ELSE CHOOSE m \in {CastInteger(k) : k \in DOMAIN rows} :
         \A k \in DOMAIN rows : CastInteger(k) <= m

\* An allocator that hands out the number of chats plus one.
GetNextIdByCount(rows) == Str(Cardinality(DOMAIN rows) + 1)

\* getNextId: String(+highestId + 1), with highestId = maxId || 0
GetNextId(rows) == Str(HighestId(rows) + 1)

RECURSIVE Suffixed(_, _, _)
Suffixed(idList, id, i) ==
  IF (id \o <<"-">> \o Str(i)) \in idList
  THEN Suffixed(idList, id, i + 1)
  ELSE id \o <<"-">> \o Str(i)

\* getUrlIds: SELECT urlId FROM chats WHERE urlId IS NOT NULL
GetUrlIds(rows) == {rows[k].urlId : k \in DOMAIN rows} \ {NULL}

\* A getUrlId that appends -2 without looking further.
GetUrlIdSuffixTwo(rows, id) ==
  IF id \notin GetUrlIds(rows) THEN id ELSE id \o <<"-", "2">>

\* getUrlId: id when free, else the first free id-2, id-3, ...
GetUrlId(rows, id) ==
  IF id \notin GetUrlIds(rows) THEN id ELSE Suffixed(GetUrlIds(rows), id, 2)

\* getNextId(db) called on its own.
CallGetNextId(p) ==
  /\ cfContext # "null"
  /\ Start(p, [NoReq EXCEPT !.op = "getNextId"], NoLoc, "getNextId:run")
  /\ UNCHANGED <<dbVars, blobs, uuidCount, ctxVars, issued, kv>>

GetNextIdRun(p, ok) ==
  /\ pc[p] = "getNextId:run"
  /\ IF D1Error(ok, "chats") # ""
     THEN Finish(p, "d1.select", Err(D1Error(ok, "chats")))
     ELSE Finish(p, "d1.select", [Ok EXCEPT !.id = GetNextId(chats)])
  /\ UNCHANGED <<dbVars, blobs, uuidCount, ctxVars, issued, kv>>

\* getUrlId(db, id) called on its own.
CallGetUrlId(p, id) ==
  /\ cfContext # "null"
  /\ Start(p, [NoReq EXCEPT !.op = "getUrlId", !.id = id], NoLoc, "getUrlId:run")
  /\ UNCHANGED <<dbVars, blobs, uuidCount, ctxVars, issued, kv>>

GetUrlIdRun(p, ok) ==
  /\ pc[p] = "getUrlId:run"
  /\ IF D1Error(ok, "chats") # ""
     THEN Finish(p, "d1.select", Err(D1Error(ok, "chats")))
     ELSE Finish(p, "d1.select", [Ok EXCEPT !.urlId = GetUrlId(chats, req[p].id)])
  /\ UNCHANGED <<dbVars, blobs, uuidCount, ctxVars, issued, kv>>

\* createChatFromMessages(db, description, messages, metadata)
CallCreateChat(p, description, messages, metadata) ==
  /\ cfContext # "null"
  /\ HighestId(chats) < MaxChatId
  /\ Start(p, [NoReq EXCEPT !.op = "createChatFromMessages",
                            !.description = description, !.messages = messages,
                            !.metadata = metadata],
              [NoLoc EXCEPT !.description = description, !.messages = messages,
                            !.metadata = metadata], "create:getNextId")
  /\ UNCHANGED <<dbVars, blobs, uuidCount, ctxVars, issued, kv>>

\* forkChat(db, chatId, messageId)
CallForkChat(p, chatId, messageId) ==
  /\ cfContext # "null"
  /\ HighestId(chats) < MaxChatId
  /\ Start(p, [NoReq EXCEPT !.op = "forkChat", !.id = chatId, !.messageId = messageId],
              NoLoc, "getMessages:byId")
  /\ UNCHANGED <<dbVars, blobs, uuidCount, ctxVars, issued, kv>>

\* duplicateChat(db, id)
CallDuplicateChat(p, id) ==
  /\ cfContext # "null"
  /\ HighestId(chats) < MaxChatId
  /\ Start(p, [NoReq EXCEPT !.op = "duplicateChat", !.id = id], NoLoc, "getMessages:byId")
  /\ UNCHANGED <<dbVars, blobs, uuidCount, ctxVars, issued, kv>>

\* const id = await getNextId(db)
CreateGetNextId(p, ok) ==
  /\ pc[p] = "create:getNextId"
  /\ IF D1Error(ok, "chats") # ""
     THEN Finish(p, "d1.select", Err(D1Error(ok, "chats")))
     ELSE /\ Step(p, "d1.select", "create:getUrlId")
          /\ loc' = [loc EXCEPT ![p].id = GetNextId(chats)]
  /\ UNCHANGED <<dbVars, blobs, uuidCount, ctxVars, issued, kv>>

\* const urlId = await getUrlId(db, id)
CreateGetUrlId(p, ok) ==
  /\ pc[p] = "create:getUrlId"
  /\ IF D1Error(ok, "chats") # ""
     THEN Finish(p, "d1.select", Err(D1Error(ok, "chats")))
     ELSE /\ Step(p, "d1.select", "create:setMessages")
          /\ loc' = [loc EXCEPT ![p].urlId = GetUrlId(chats, loc[p].id)]
  /\ UNCHANGED <<dbVars, blobs, uuidCount, ctxVars, issued, kv>>

\* The arguments createChatFromMessages passes to setMessages.
CreateRequest(p) ==
  [NoReq EXCEPT !.id = loc[p].id, !.messages = loc[p].messages,
                !.urlId = loc[p].urlId, !.description = loc[p].description,
                !.timestamp = UNDEF, !.metadata = loc[p].metadata]

\* await setMessages(db, id, messages, urlId, description, undefined,
\* metadata); return id
CreateSetMessages(p, ok) ==
  /\ pc[p] = "create:setMessages"
  /\ IF SetMessagesError(ok, CreateRequest(p)) = ""
     THEN /\ chats' = Put(chats, loc[p].id, SetMessagesRow(chats, CreateRequest(p)))
          /\ issued' = issued \cup {loc[p].id}
          /\ Finish(p, "d1.upsert", [Ok EXCEPT !.id = loc[p].id])
     ELSE /\ UNCHANGED <<chats, issued>>
          /\ Finish(p, "d1.upsert", Err(SetMessagesError(ok, CreateRequest(p))))
  /\ UNCHANGED <<tables, snapshots, files, blobs, uuidCount, ctxVars, kv>>

\* ------------------------------------------------------ root.tsx, context
\* A loader that constructs a context on every request.
CallLoaderAlways(p) ==
  /\ cfContext' = "ctx"
  /\ initialized' = FALSE
  /\ Start(p, [NoReq EXCEPT !.op = "loader"], NoLoc, "initialize:exec")
  /\ UNCHANGED <<dbVars, blobs, uuidCount, issued, kv>>

\* The root loader, with all three bindings present.  Without a context it
\* constructs one, publishes it in cfContext and only then awaits
\* initialize(); with a context it returns at once.
CallLoader(p) ==
  /\ IF cfContext = "null"
     THEN /\ cfContext' = "ctx"
          /\ initialized' = FALSE
          /\ Start(p, [NoReq EXCEPT !.op = "loader"], NoLoc, "initialize:exec")
     ELSE /\ UNCHANGED ctxVars
          /\ Idle(p)
          /\ req' = [req EXCEPT ![p] = [NoReq EXCEPT !.op = "loader"]]
          /\ loc' = [loc EXCEPT ![p] = NoLoc]
          /\ pc' = [pc EXCEPT ![p] = "done"]
          /\ result' = [result EXCEPT ![p] = Ok]
          /\ calls' = [calls EXCEPT ![p] = <<>>]
  /\ UNCHANGED <<dbVars, blobs, uuidCount, issued, kv>>

\* initialize() without the "already initialized" guard.
CallInitializeNoGuard(p) ==
  /\ cfContext # "null"
  /\ Start(p, [NoReq EXCEPT !.op = "initialize"], NoLoc, "initialize:exec")
  /\ UNCHANGED <<dbVars, blobs, uuidCount, ctxVars, issued, kv>>

\* CloudflareContext.initialize() called on the existing context.
CallInitialize(p) ==
  /\ cfContext # "null"
  /\ IF initialized
     THEN /\ Idle(p)
          /\ req' = [req EXCEPT ![p] = [NoReq EXCEPT !.op = "initialize"]]
          /\ loc' = [loc EXCEPT ![p] = NoLoc]
          /\ pc' = [pc EXCEPT ![p] = "done"]
          /\ result' = [result EXCEPT ![p] = Ok]
          /\ calls' = [calls EXCEPT ![p] = <<>>]
     ELSE Start(p, [NoReq EXCEPT !.op = "initialize"], NoLoc, "initialize:exec")
  /\ UNCHANGED <<dbVars, blobs, uuidCount, ctxVars, issued, kv>>

\* await CloudflareDB.initializeDatabase(this.db); this.initialized = true
\* db.exec runs CREATE TABLE IF NOT EXISTS for chats and snapshots.
InitializeExec(p, ok) ==
  /\ pc[p] = "initialize:exec"
  /\ IF ok
     THEN /\ tables' = tables \cup InitTables
          /\ initialized' = TRUE
          /\ Finish(p, "d1.exec", Ok)
     ELSE /\ UNCHANGED <<tables, initialized>>
          /\ Finish(p, "d1.exec", Err("D1 unavailable"))
  /\ UNCHANGED <<chats, snapshots, files, blobs, uuidCount, cfContext, issued, kv>>

\* getSnapshot(db, chatId): the parsed data, or undefined when no row.
GetSnapshot(chatId) ==
  IF chatId \in DOMAIN snapshots THEN snapshots[chatId][2] ELSE UNDEF

\* getSnapshot(db, chatId) as a call: SELECT data FROM snapshots WHERE chatId = ?
CallGetSnapshot(p, chatId) ==
  /\ cfContext # "null"
  /\ Start(p, [NoReq EXCEPT !.op = "getSnapshot", !.chatId = chatId], NoLoc,
           "getSnapshot:run")
  /\ UNCHANGED <<dbVars, blobs, uuidCount, ctxVars, issued, kv>>

GetSnapshotRun(p, ok) ==
  /\ pc[p] = "getSnapshot:run"
  /\ IF D1Error(ok, "snapshots") # ""
     THEN Finish(p, "d1.select", Err(D1Error(ok, "snapshots")))
     ELSE Finish(p, "d1.select",
                 [Ok EXCEPT !.found = req[p].chatId \in DOMAIN snapshots,
                            !.data = GetSnapshot(req[p].chatId)])
  /\ UNCHANGED <<dbVars, blobs, uuidCount, ctxVars, issued, kv>>

\* deleteSnapshot(db, chatId): DELETE FROM snapshots WHERE chatId = ?
CallDeleteSnapshot(p, chatId) ==
  /\ cfContext # "null"
  /\ Start(p, [NoReq EXCEPT !.op = "deleteSnapshot", !.chatId = chatId], NoLoc,
           "deleteSnapshot:run")
  /\ UNCHANGED <<dbVars, blobs, uuidCount, ctxVars, issued, kv>>

DeleteSnapshotRun(p, ok) ==
  /\ pc[p] = "deleteSnapshot:run"
  /\ IF D1Error(ok, "snapshots") = ""
     THEN /\ snapshots' = Drop(snapshots, {req[p].chatId})
          /\ Finish(p, "d1.delete", Ok)
     ELSE /\ snapshots' = snapshots
          /\ Finish(p, "d1.delete", Err(D1Error(ok, "snapshots")))
  /\ UNCHANGED <<tables, chats, files, blobs, uuidCount, ctxVars, issued, kv>>

\* listFilesForChat(chatId): SELECT * FROM files WHERE chatId = ?
ListFilesForChat(chatId) == {f \in DOMAIN files : files[f].chatId = chatId}

\* ------------------------------------------------- file manager and cascade
\* storeFile and deleteFile on their own.  No chat exists, so a storeFile
\* that names chat "1" fails at its row insert on the foreign key.
NextFiles ==
  \E p \in Procs :
    \/ \E c \in {NULL, <<"1">>} : CallStoreFile(p, "hi", "notes.txt", c)
    \/ \E ok \in BOOLEAN : StoreFilePut(p, ok)
    \/ \E ok \in BOOLEAN : StoreFileInsert(p, ok)
    \/ \E f \in KnownFileIds : CallDeleteFile(p, f)
    \/ \E ok \in BOOLEAN : DeleteFileBlob(p, ok)
    \/ \E ok \in BOOLEAN : DeleteFileRow(p, ok)

SpecFiles == InitReady /\ [][NextFiles]_vars

\* Chats with snapshots and files, and deleteChat.
FileChats == {<<"1">>, <<"2">>}

TwoProcs == {p \in Procs : p <= 2}

NextCascade ==
  \E p \in TwoProcs :
    \/ \E c \in FileChats : CallStoreFile(p, "hi", "notes.txt", c)
    \/ \E ok \in BOOLEAN : StoreFilePut(p, ok)
    \/ \E ok \in BOOLEAN : StoreFileInsert(p, ok)
    \/ \E c \in FileChats : CallSetMessages(p, c, <<>>, NULL, NULL, UNDEF, UNDEF)
    \/ \E ok \in BOOLEAN : SetMessagesRun(p, ok)
    \/ \E c \in FileChats : CallSetSnapshot(p, c, "snap")
    \/ \E ok \in BOOLEAN : SetSnapshotRun(p, ok)
    \/ \E c \in FileChats : CallDeleteChat(p, c)
    \/ \E ok \in BOOLEAN : DeleteByIdRun(p, ok)

SpecCascade == InitReady /\ [][NextCascade]_vars

RowWithoutBlob(f) == f \in DOMAIN files /\ f \notin DOMAIN blobs

Stepped(p) == pc'[p] # pc[p]

\* C1 (as claimed): in every reachable state every row of the files table
\* has a blob under the same id.
C1_RowImpliesBlob == \A f \in DOMAIN files : f \in DOMAIN blobs

\* C1 (amended): a row is without its blob only through deleteFile(id),
\* which deletes the blob first: the only step that leaves a row without a
\* blob is the blob delete of a deleteFile call for that id; storeFile never
\* produces a row without a blob.
C1_OnlyDeleteFileOrphansRow ==
  [][\A f \in FileIds :
       RowWithoutBlob(f)' =>
         \/ RowWithoutBlob(f)
         \/ \E p \in Procs : /\ req[p].op = "deleteFile"
                             /\ req[p].fileId = f
                             /\ pc[p] = "deleteFile:r2"
                             /\ pc'[p] = "deleteFile:d1"]_vars

\* A deleteFile call failed at its row delete and left the row without blob.
C1_Witness ==
  \E p \in Procs : /\ req[p].op = "deleteFile"
                   /\ pc[p] = "done"
                   /\ result[p].status = "error"
                   /\ calls[p] = <<"r2.delete", "d1.delete">>
                   /\ RowWithoutBlob(req[p].fileId)

\* C2: deleteFile deletes the blob before the row; when the blob delete
\* fails the call ends with the error, the row delete is not attempted and
\* neither the files table nor the bucket changes.
C2_DeleteBlobFirst ==
  [][\A p \in Procs :
       /\ (pc[p] = "deleteFile:r2" /\ Stepped(p)) =>
            \/ /\ pc'[p] = "deleteFile:d1"
               /\ req[p].fileId \notin DOMAIN blobs'
               /\ files' = files
            \/ /\ pc'[p] = "done"
               /\ result'[p].status = "error"
               /\ calls'[p] = <<"r2.delete">>
               /\ files' = files
               /\ blobs' = blobs
       /\ (pc[p] = "deleteFile:d1" /\ Stepped(p)) =>
            /\ calls[p] = <<"r2.delete">>
            /\ pc'[p] = "done"
            /\ blobs' = blobs]_vars

\* A deleteFile call ended with the error of the blob delete while both the
\* blob and the row of its id are still there.
C2_Witness ==
  \E p \in Procs : /\ req[p].op = "deleteFile"
                   /\ pc[p] = "done"
                   /\ result[p].status = "error"
                   /\ calls[p] = <<"r2.delete">>
                   /\ req[p].fileId \in DOMAIN files
                   /\ req[p].fileId \in DOMAIN blobs

\* C3: when the blob write of storeFile fails the call ends with the error,
\* the files table is unchanged, and the id never gets a row.
C3_NoRowWithoutBlobWrite ==
  [][\A p \in Procs :
       /\ (pc[p] = "storeFile:put" /\ Stepped(p) /\ R2KeyOf(p) \notin DOMAIN blobs') =>
            /\ pc'[p] = "done"
            /\ result'[p].status = "error"
            /\ calls'[p] = <<"r2.put">>
            /\ files' = files
       /\ (req[p].op = "storeFile" /\ pc[p] = "done" /\ calls[p] = <<"r2.put">>) =>
            loc[p].fileId \notin DOMAIN files']_vars

\* A storeFile call ended at its failed blob write.
C3_Witness ==
  \E p \in Procs : /\ req[p].op = "storeFile"
                   /\ pc[p] = "done"
                   /\ result[p].status = "error"
                   /\ calls[p] = <<"r2.put">>
                   /\ loc[p].fileId \notin DOMAIN files
                   /\ loc[p].fileId \notin DOMAIN blobs

\* C4: storeFile writes the blob before the row; when the row insert fails
\* the call ends with the error, the blob stays without a row and no further
\* call (no compensating delete) is made.
C4_OrphanBlobOnInsertFailure ==
  [][\A p \in Procs :
       /\ (pc[p] = "storeFile:insert") =>
            /\ calls[p] = <<"r2.put">>
            /\ loc[p].fileId \in DOMAIN blobs
            /\ loc[p].fileId \notin DOMAIN files
       /\ (pc[p] = "storeFile:insert" /\ Stepped(p)
             /\ loc[p].fileId \notin DOMAIN files') =>
            /\ pc'[p] = "done"
            /\ result'[p].status = "error"
            /\ calls'[p] = <<"r2.put", "d1.insert">>
            /\ blobs' = blobs
            /\ loc[p].fileId \in DOMAIN blobs']_vars

\* A storeFile call ended at its failed row insert: blob without row.
C4_Witness ==
  \E p \in Procs : /\ req[p].op = "storeFile"
                   /\ pc[p] = "done"
                   /\ result[p].status = "error"
                   /\ calls[p] = <<"r2.put", "d1.insert">>
                   /\ loc[p].fileId \in DOMAIN blobs
                   /\ loc[p].fileId \notin DOMAIN files

\* C5: deleting a chat that has a snapshot and file rows removes its
\* snapshot and all of its file rows (getSnapshot reports absent,
\* listFilesForChat reports the empty list) and removes no snapshot or file
\* row of another chat.
C5_DeleteChatCascades ==
  [][\A c \in DOMAIN chats :
       (initialized /\ c \notin DOMAIN chats') =>
          /\ GetSnapshot(c)' = UNDEF
          /\ ListFilesForChat(c)' = {}
          /\ \A d \in DOMAIN snapshots \ {c} :
               d \in DOMAIN snapshots' /\ snapshots'[d] = snapshots[d]
          /\ \A f \in DOMAIN files :
               files[f].chatId # c => (f \in DOMAIN files' /\ files'[f] = files[f])]_vars

\* A deleteChat(c) succeeded on a chat that had a snapshot and a stored
\* file, while a row of another owner is still there.
C5_Witness ==
  \E p, q \in Procs : \E c \in FileChats :
     /\ req[p].op = "deleteChat" /\ req[p].id = c
     /\ pc[p] = "done" /\ result[p].status = "ok"
     /\ req[q].op = "setSnapshot" /\ req[q].chatId = c
     /\ pc[q] = "done" /\ result[q].status = "ok"
     /\ c \notin DOMAIN chats
     /\ \E f \in DOMAIN blobs : blobs[f].customMetadata.chatId = c /\ f \notin DOMAIN files
     /\ \E g \in DOMAIN files : files[g].chatId # c

\* ------------------------------------------------- the process as deployed
\* Requests of one worker process: the root loader, and operations that
\* route handlers reach through getCloudflareContext().
Next ==
  \E p \in Procs :
    \/ CallLoader(p)
    \/ \E ok \in BOOLEAN : InitializeExec(p, ok)
    \/ CallSetMessages(p, <<"1">>, <<>>, NULL, NULL, UNDEF, UNDEF)
    \/ \E ok \in BOOLEAN : SetMessagesRun(p, ok)
    \/ CallGetMessages(p, <<"1">>)
    \/ \E ok \in BOOLEAN : GetMessagesById(p, ok)
    \/ \E ok \in BOOLEAN : GetMessagesByUrlId(p, ok)
    \/ CallStoreFile(p, "hi", "notes.txt", NULL)
    \/ \E ok \in BOOLEAN : StoreFilePut(p, ok)
    \/ \E ok \in BOOLEAN : StoreFileInsert(p, ok)

Spec == Init /\ [][Next]_vars

\* The same, with callers that also call initialize() on the context.
NextApi ==
  \/ Next
  \/ \E p \in Procs : CallInitialize(p)

SpecApi == Init /\ [][NextApi]_vars

\* C6 (as claimed): no chat, file or other operation makes a backend call
\* through the process-wide context before initialize() has completed.
C6_InitializedBeforeUse ==
  \A p \in Procs :
    (req[p].op \notin {"none", "loader", "initialize"} /\ calls[p] # <<>>) => initialized

StartsInitialize(p) ==
  /\ Idle(p)
  /\ req'[p].op = "initialize"
  /\ <<pc[p], req[p], result[p], calls[p]>> # <<pc'[p], req'[p], result'[p], calls'[p]>>

\* C7: once initialize() has completed successfully, a later call returns
\* at once without a schema statement and leaves the database unchanged; a
\* schema setup that fails does not set the flag and the call ends with the
\* error; one that succeeds sets it.
C7_InitializeIdempotent ==
  [][\A p \in Procs :
       /\ (initialized /\ StartsInitialize(p)) =>
            /\ pc'[p] = "done"
            /\ result'[p].status = "ok"
            /\ calls'[p] = <<>>
            /\ UNCHANGED dbVars
            /\ initialized'
       /\ (pc[p] = "initialize:exec" /\ Stepped(p)) =>
            /\ pc'[p] = "done"
            /\ calls'[p] = <<"d1.exec">>
            /\ \/ result'[p].status = "ok" /\ initialized' /\ InitTables \subseteq tables'
               \/ /\ result'[p].status = "error"
                  /\ initialized' = initialized
                  /\ UNCHANGED dbVars]_vars

\* An initialize() call on an initialized context has returned at once,
\* with rows in the database.
C7_Witness ==
  \E p \in Procs : /\ req[p].op = "initialize"
                   /\ pc[p] = "done"
                   /\ result[p].status = "ok"
                   /\ calls[p] = <<>>
                   /\ initialized
                   /\ DOMAIN chats # {}

\* ------------------------------------------------ chat upsert and lookup
T1 == "2024-05-01T10:00:00.000Z"

MPlain == <<Msg("m1", "hi", NoVal)>>
MDate == <<Msg("m1", "hi", NoVal), Msg("m2", "yo", DateVal(T1))>>
MOther == <<Msg("m3", "bye", StrVal(T1))>>

SetArgs ==
  { [messages |-> MPlain, urlId |-> <<"1">>, description |-> <<"demo">>,
     timestamp |-> T1, metadata |-> "metaA"],
    [messages |-> MDate, urlId |-> NULL, description |-> NULL,
     timestamp |-> UNDEF, metadata |-> UNDEF],
    [messages |-> MOther, urlId |-> <<"2">>, description |-> <<"other">>,
     timestamp |-> "", metadata |-> "metaB"],
    [messages |-> MOther, urlId |-> <<"2">>, description |-> NULL,
     timestamp |-> UNDEF, metadata |-> "metaA"],
    [messages |-> MPlain, urlId |-> NULL, description |-> <<"other">>,
     timestamp |-> "not a date", metadata |-> UNDEF] }

TwoChats == {<<"1">>, <<"2">>}

\* One request stream writes chats while another reads them.
Writer == 1
Reader == 2

NextChats ==
  \/ \E id \in TwoChats : \E a \in SetArgs :
       CallSetMessages(Writer, id, a.messages, a.urlId, a.description,
                       a.timestamp, a.metadata)
  \/ \E ok \in BOOLEAN : SetMessagesRun(Writer, ok)
  \/ \E id \in TwoChats : CallDeleteChat(Writer, id)
  \/ \E ok \in BOOLEAN : DeleteByIdRun(Writer, ok)
  \/ \E id \in TwoChats : CallGetMessages(Reader, id)
  \/ \E ok \in BOOLEAN : GetMessagesById(Reader, ok)
  \/ \E ok \in BOOLEAN : GetMessagesByUrlId(Reader, ok)

SpecChats == InitReady /\ [][NextChats]_vars

\* The query of a getMessages(i) runs after the last write, a successful
\* setMessages(i, M), and does not fail.
ReadsAfterWrite ==
  /\ req[Reader].op = "getMessages"
  /\ pc[Reader] = "getMessages:byId"
  /\ Stepped(Reader)
  /\ result'[Reader].status # "error"
  /\ req[Writer].op = "setMessages"
  /\ pc[Writer] = "done"
  /\ result[Writer].status = "ok"
  /\ req[Writer].id = req[Reader].id

\* C8 (as claimed): getMessages(i) after a successful setMessages(i, M)
\* returns the record with id i whose messages equal M exactly.
C8_RoundTripExact ==
  [][ReadsAfterWrite =>
       /\ pc'[Reader] = "done"
       /\ result'[Reader].found
       /\ result'[Reader].chat.id = req[Reader].id
       /\ result'[Reader].chat.messages = req[Writer].messages]_vars

\* What a message looks like after it was written as JSON and read back.
AsStored(m, n) ==
  /\ n.id = m.id
  /\ n.role = m.role
  /\ n.content = m.content
  /\ n.createdAt = IF m.createdAt.t = "Date"
                   THEN [t |-> "string", v |-> m.createdAt.v] ELSE m.createdAt

\* C8 (amended): getMessages(i) after a successful setMessages(i, M) returns
\* the record with id i, whatever urlIds other chats have, and its messages
\* are M as JSON carries it: the same messages in the same order, a
\* Date-valued field being returned as its ISO string.
C8_RoundTripJSON ==
  [][ReadsAfterWrite =>
       /\ pc'[Reader] = "done"
       /\ result'[Reader].found
       /\ result'[Reader].chat.id = req[Reader].id
       /\ Len(result'[Reader].chat.messages) = Len(req[Writer].messages)
       /\ \A i \in 1..Len(req[Writer].messages) :
            AsStored(req[Writer].messages[i], result'[Reader].chat.messages[i])]_vars

\* A chat written with a Date in its messages was read back by id while
\* another chat holds that id as its urlId.
C8_Witness ==
  /\ req[Reader].op = "getMessages" /\ pc[Reader] = "done"
  /\ result[Reader].status = "ok" /\ result[Reader].found
  /\ result[Reader].chat.id = req[Reader].id
  /\ req[Writer].op = "setMessages" /\ pc[Writer] = "done"
  /\ result[Writer].status = "ok"
  /\ req[Writer].id = req[Reader].id
  /\ req[Writer].messages = MDate
  /\ result[Reader].chat.messages # MDate
  /\ Len(result[Reader].chat.messages) = 2
  /\ \E k \in DOMAIN chats \ {req[Reader].id} : chats[k].urlId = req[Reader].id

\* C9: setMessages on an existing id replaces messages and timestamp, and
\* for urlId, description and metadata writes the supplied value when it is
\* non-null and keeps the stored one otherwise; no other row changes.
C9_UpsertMerge ==
  [][\A p \in Procs :
       (/\ pc[p] = "setMessages:run" /\ Stepped(p)
        /\ result'[p].status = "ok"
        /\ req[p].id \in DOMAIN chats) =>
          LET r == req[p]
              old == chats[r.id]
              new == chats'[r.id]
          IN /\ new.messages = JSONstringify(r.messages)
             /\ new.timestamp = (IF r.timestamp = UNDEF THEN NOW ELSE r.timestamp)
             /\ new.urlId = (IF r.urlId = NULL THEN old.urlId ELSE r.urlId)
             /\ new.description =
                  (IF r.description = NULL THEN old.description ELSE r.description)
             /\ new.metadata =
                  (IF r.metadata = UNDEF THEN old.metadata ELSE <<"json", r.metadata>>)
             /\ DOMAIN chats' = DOMAIN chats
             /\ \A k \in DOMAIN chats \ {r.id} : chats'[k] = chats[k]]_vars

\* A second setMessages with null urlId, description and metadata succeeded
\* on a chat that keeps the values of the first.
C9_Witness ==
  \E p \in Procs :
    /\ req[p].op = "setMessages" /\ pc[p] = "done" /\ result[p].status = "ok"
    /\ req[p].urlId = NULL /\ req[p].description = NULL /\ req[p].metadata = UNDEF
    /\ req[p].id \in DOMAIN chats
    /\ chats[req[p].id].urlId = <<"1">>
    /\ chats[req[p].id].description = <<"demo">>
    /\ chats[req[p].id].metadata = <<"json", "metaA">>
    /\ chats[req[p].id].messages = JSONstringify(req[p].messages)
    /\ chats[req[p].id].timestamp = NOW

\* ------------------------------------------------------- id allocation
IdStrings == {Str(n) : n \in 1..MaxChatId}

\* Calls that create and delete chats, one at a time.
NextIds ==
  \E p \in {1} :
    \/ CallCreateChat(p, <<"demo">>, MPlain, UNDEF)
    \/ \E id \in IdStrings : \E m \in {"m1", "zz"} : CallForkChat(p, id, m)
    \/ \E id \in IdStrings : CallDuplicateChat(p, id)
    \/ \E id \in IdStrings : CallDeleteChat(p, id)
    \/ \E ok \in BOOLEAN : GetMessagesById(p, ok)
    \/ \E ok \in BOOLEAN : GetMessagesByUrlId(p, ok)
    \/ \E ok \in BOOLEAN : CreateGetNextId(p, ok)
    \/ \E ok \in BOOLEAN : CreateGetUrlId(p, ok)
    \/ \E ok \in BOOLEAN : CreateSetMessages(p, ok)
    \/ \E ok \in BOOLEAN : DeleteByIdRun(p, ok)

SpecIds == InitReady /\ [][NextIds]_vars

\* A create, fork or duplicate call returns its new id in this step.
ReturnsNewId(p) ==
  /\ pc[p] = "create:setMessages"
  /\ Stepped(p)
  /\ result'[p].status = "ok"

\* C10 (as claimed): each id returned for a newly created chat is
\* numerically greater than every id returned before it.
C10_IdsMonotonic ==
  [][\A p \in Procs :
       ReturnsNewId(p) =>
         \A m \in issued : CastInteger(result'[p].id) > CastInteger(m)]_vars

\* C10 (amended): each id returned for a newly created chat is numerically
\* greater than the id of every chat in the store at that time, and is new
\* to the store; it need not be greater than the ids returned earlier.
C10_IdAboveStored ==
  [][\A p \in Procs :
       ReturnsNewId(p) =>
         /\ result'[p].id \notin DOMAIN chats
         /\ result'[p].id \in DOMAIN chats'
         /\ \A k \in DOMAIN chats : CastInteger(result'[p].id) > CastInteger(k)]_vars

\* A create call returned id 1 although ids 1 and 2 had been returned
\* before: both chats were deleted, and the new chat is above all stored.
C10_Witness ==
  \E p \in Procs :
    /\ req[p].op = "createChatFromMessages"
    /\ pc[p] = "done" /\ result[p].status = "ok"
    /\ result[p].id = <<"1">>
    /\ issued = {<<"1">>, <<"2">>}
    /\ DOMAIN chats = {<<"1">>}

\* ---------------------------------------------- getNextId and getUrlId
\* Chat ids a store may hold: setMessages accepts any string as id.
IdPool == {<<"1">>, <<"2">>, <<"7">>, <<"0">>, <<"-", "2">>, <<"a", "b">>}

\* urlIds of the chats of a store, per chat id (NULL where not listed).
UrlIdMaps ==
  { [k \in {} |-> NULL],
    [k \in {<<"1">>, <<"2">>, <<"7">>} |->
       IF k = <<"1">> THEN <<"5">>
       ELSE IF k = <<"2">> THEN <<"5", "-", "2">> ELSE <<"5", "-", "3">>],
    [k \in {<<"1">>, <<"2">>, <<"7">>} |->
       IF k = <<"1">> THEN <<"5">>
       ELSE IF k = <<"2">> THEN <<"5", "-", "3">> ELSE <<"7">>],
    [k \in {<<"1">>, <<"0">>} |->
       IF k = <<"1">> THEN <<"5", "-", "2">> ELSE <<"1">>] }

\* The store setMessages(id, MPlain, urlId) leaves for the ids of S.
StoreOf(S, u) ==
  [k \in S |-> [urlId |-> IF k \in DOMAIN u THEN u[k] ELSE NULL,
                messages |-> JSONstringify(MPlain), description |-> NULL,
                timestamp |-> NOW, metadata |-> NULL]]

InitAlloc ==
  /\ tables \in {InitTables}
  /\ chats \in {StoreOf(S, u) : S \in SUBSET IdPool, u \in UrlIdMaps}
  /\ snapshots = EmptyFn
  /\ files = EmptyFn
  /\ blobs = EmptyFn
  /\ uuidCount = 0
  /\ cfContext = "ctx"
  /\ initialized = TRUE
  /\ issued = {}
  /\ pc = [p \in Procs |-> "idle"]
  /\ req = [p \in Procs |-> NoReq]
  /\ loc = [p \in Procs |-> NoLoc]
  /\ result = [p \in Procs |-> NoResult]
  /\ calls = [p \in Procs |-> <<>>]
  /\ kv = EmptyFn

NextAlloc ==
  \E p \in {1} :
    \/ CallGetNextId(p)
    \/ \E ok \in BOOLEAN : GetNextIdRun(p, ok)
    \/ \E id \in {<<"5">>, <<"7">>, <<"1">>} : CallGetUrlId(p, id)
    \/ \E ok \in BOOLEAN : GetUrlIdRun(p, ok)

SpecAlloc == InitAlloc /\ [][NextAlloc]_vars

\* C11: getNextId returns the decimal string of one more than the highest
\* chat id read as an integer, "1" for an empty table and "8" for ids
\* {"1","2","7"}; the string is the id of no existing chat.
C11_GetNextId ==
  [][\A p \in Procs :
       (pc[p] = "getNextId:run" /\ Stepped(p) /\ result'[p].status = "ok") =>
         LET r == result'[p].id
         IN /\ Str(CastInteger(r)) = r
            /\ \A k \in DOMAIN chats : CastInteger(k) < CastInteger(r)
            /\ DOMAIN chats # {} =>
                 \E k \in DOMAIN chats : CastInteger(k) + 1 = CastInteger(r)
            /\ DOMAIN chats = {} => r = <<"1">>
            /\ DOMAIN chats = {<<"1">>, <<"2">>, <<"7">>} => r = <<"8">>
            /\ r \notin DOMAIN chats
            /\ UNCHANGED dbVars]_vars

\* getNextId returned "8" on a store with ids 1, 2 and 7.
C11_Witness ==
  \E p \in Procs :
    /\ req[p].op = "getNextId" /\ pc[p] = "done" /\ result[p].status = "ok"
    /\ result[p].id = <<"8">>
    /\ DOMAIN chats = {<<"1">>, <<"2">>, <<"7">>}

\* The non-null urlIds of the rows of chats.
ExistingUrlIds == {chats[k].urlId : k \in DOMAIN chats} \ {NULL}

\* C12: getUrlId(id) returns id when no row has that urlId, and otherwise
\* id-n for the smallest n >= 2 with id-n not an existing urlId; what it
\* returns is never an existing urlId ("5" with {"5","5-2"} gives "5-3").
C12_GetUrlId ==
  [][\A p \in Procs :
       (pc[p] = "getUrlId:run" /\ Stepped(p) /\ result'[p].status = "ok") =>
         LET r == result'[p].urlId
             x == req[p].id
         IN /\ r \notin ExistingUrlIds
            /\ x \notin ExistingUrlIds => r = x
            /\ x \in ExistingUrlIds =>
                 \E n \in 2..(Cardinality(ExistingUrlIds) + 2) :
                   /\ r = x \o <<"-">> \o Str(n)
                   /\ \A m \in 2..(n - 1) : (x \o <<"-">> \o Str(m)) \in ExistingUrlIds
            /\ (x = <<"5">> /\ ExistingUrlIds = {<<"5">>, <<"5", "-", "2">>}) =>
                 r = <<"5", "-", "3">>
            /\ UNCHANGED dbVars]_vars

\* getUrlId("5") returned "5-3" on a store with urlIds 5 and 5-2.
C12_Witness ==
  \E p \in Procs :
    /\ req[p].op = "getUrlId" /\ req[p].id = <<"5">>
    /\ pc[p] = "done" /\ result[p].status = "ok"
    /\ result[p].urlId = <<"5", "-", "3">>
    /\ ExistingUrlIds = {<<"5">>, <<"5", "-", "2">>}

\* ------------------------------------------------ uniqueness of id, urlId
\* Descriptions grow by one suffix per fork or copy: copies are made only
\* of stores whose descriptions are below the bound.
ShortDescriptions ==
  \A k \in DOMAIN chats :
    chats[k].description = NULL \/ Len(chats[k].description) < MaxDescLen

\* <<id, urlId>> pairs of the setMessages calls.
UniqueArgs == {<<(<<"1">>), (<<"2">>)>>, <<(<<"2">>), (<<"1">>)>>, <<(<<"2">>), NULL>>}

\* One request stream writes and deletes chats by id while another creates,
\* forks and duplicates chats.
NextUnique ==
  \/ \E a \in UniqueArgs :
       CallSetMessages(Writer, a[1], MPlain, a[2], NULL, UNDEF, UNDEF)
  \/ \E ok \in BOOLEAN : SetMessagesRun(Writer, ok)
  \/ \E id \in TwoChats : CallDeleteChat(Writer, id)
  \/ \E ok \in BOOLEAN : DeleteByIdRun(Writer, ok)
  \/ CallCreateChat(Reader, <<"demo">>, MPlain, UNDEF)
  \/ ShortDescriptions /\ CallForkChat(Reader, <<"1">>, "m1")
  \/ ShortDescriptions /\ CallDuplicateChat(Reader, <<"1">>)
  \/ \E ok \in BOOLEAN : GetMessagesById(Reader, ok)
  \/ \E ok \in BOOLEAN : GetMessagesByUrlId(Reader, ok)
  \/ \E ok \in BOOLEAN : CreateGetNextId(Reader, ok)
  \/ \E ok \in BOOLEAN : CreateGetUrlId(Reader, ok)
  \/ \E ok \in BOOLEAN : CreateSetMessages(Reader, ok)

SpecUnique == InitReady /\ [][NextUnique]_vars

\* The upsert that request p is about to run, as <<id, urlId>>.
PendingUpsert(p) ==
  IF pc[p] = "setMessages:run" THEN <<req[p].id, req[p].urlId>>
  ELSE <<loc[p].id, loc[p].urlId>>

\* C13: every chat record has its own id, no two records share a non-null
\* urlId, and an upsert whose urlId another record holds fails and leaves
\* the chats table unchanged.
C13_IdAndUrlIdUnique ==
  [][/\ \A k1, k2 \in DOMAIN chats' :
          (k1 # k2 /\ chats'[k1].urlId # NULL) => chats'[k1].urlId # chats'[k2].urlId
     /\ \A p \in Procs :
          (/\ pc[p] \in {"setMessages:run", "create:setMessages"}
           /\ Stepped(p)
           /\ PendingUpsert(p)[2] # NULL
           /\ \E k \in DOMAIN chats \ {PendingUpsert(p)[1]} :
                chats[k].urlId = PendingUpsert(p)[2]) =>
             /\ result'[p].status = "error"
             /\ chats' = chats]_vars

\* A setMessages failed on the UNIQUE constraint between two chats that
\* both have a urlId.
C13_Witness ==
  \E p \in Procs :
    /\ req[p].op = "setMessages" /\ pc[p] = "done"
    /\ result[p].error = "UNIQUE constraint failed: chats.urlId"
    /\ Cardinality(DOMAIN chats) >= 2
    /\ \A k \in DOMAIN chats : chats[k].urlId # NULL

\* --------------------------------------------------- getMessages lookup
\* A query of getMessages(x) returns without a backend error in this step.
LookupStep(p, at) ==
  /\ req[p].op = "getMessages"
  /\ pc[p] = at
  /\ Stepped(p)
  /\ ~(result'[p].status = "error" /\ result'[p].error \in {"D1 unavailable", "no such table"})

\* C14: getMessages(x) returns the row with id x when the query by id finds
\* one, even if another row has urlId x; only when no row has id x does it
\* query by urlId, returning the row whose urlId is x, or "not found" as a
\* successful null result when there is none.
C14_IdFirstThenUrlId ==
  [][\A p \in Procs :
       LET x == req[p].id IN
       /\ (LookupStep(p, "getMessages:byId") /\ x \in DOMAIN chats) =>
            /\ pc'[p] = "done" /\ result'[p].status = "ok" /\ result'[p].found
            /\ result'[p].chat.id = x
            /\ result'[p].chat.urlId = chats[x].urlId
            /\ result'[p].chat.description = chats[x].description
            /\ calls'[p] = <<"d1.select">>
       /\ (LookupStep(p, "getMessages:byId") /\ x \notin DOMAIN chats) =>
            /\ pc'[p] = "getMessages:byUrlId"
            /\ result'[p].status = "none"
       /\ (LookupStep(p, "getMessages:byUrlId")
             /\ \E k \in DOMAIN chats : chats[k].urlId = x) =>
            /\ pc'[p] = "done" /\ result'[p].status = "ok" /\ result'[p].found
            /\ result'[p].chat.id \in DOMAIN chats
            /\ chats[result'[p].chat.id].urlId = x
            /\ result'[p].chat.urlId = x
       /\ (LookupStep(p, "getMessages:byUrlId")
             /\ ~\E k \in DOMAIN chats : chats[k].urlId = x) =>
            /\ pc'[p] = "done" /\ result'[p].status = "ok" /\ ~result'[p].found
       /\ (LookupStep(p, "getMessages:byId") \/ LookupStep(p, "getMessages:byUrlId")) =>
            UNCHANGED dbVars]_vars

\* getMessages(x) found no row with id x and returned the chat whose urlId
\* is x.
C14_Witness ==
  \E p \in Procs :
    /\ req[p].op = "getMessages" /\ pc[p] = "done"
    /\ result[p].status = "ok" /\ result[p].found
    /\ result[p].chat.id # req[p].id
    /\ result[p].chat.urlId = req[p].id
    /\ calls[p] = <<"d1.select", "d1.select">>

\* ----------------------------------------------------------------- forkChat
\* Chats are created with and without a description, written without one,
\* and forked, one call at a time.
NextFork ==
  \E p \in {1} :
    \/ \E d \in {<<"demo">>, <<>>} : \E m \in {MPlain, MDate} :
         CallCreateChat(p, d, m, UNDEF)
    \/ CallSetMessages(p, <<"1">>, MDate, NULL, NULL, UNDEF, UNDEF)
    \/ \E ok \in BOOLEAN : SetMessagesRun(p, ok)
    \/ \E id \in TwoChats : \E m \in {"m1", "m2", "zz"} : CallForkChat(p, id, m)
    \/ \E ok \in BOOLEAN : GetMessagesById(p, ok)
    \/ \E ok \in BOOLEAN : GetMessagesByUrlId(p, ok)
    \/ \E ok \in BOOLEAN : CreateGetNextId(p, ok)
    \/ \E ok \in BOOLEAN : CreateGetUrlId(p, ok)
    \/ \E ok \in BOOLEAN : CreateSetMessages(p, ok)

SpecFork == InitReady /\ [][NextFork]_vars

\* The id of the chat that getMessages(x) resolves to in the current table.
SourceOf(x) ==
  IF x \in DOMAIN chats THEN x ELSE CHOOSE k \in DOMAIN chats : chats[k].urlId = x

\* The 1-based position of the first stored message of chat k with id m.
PositionOf(k, m) ==
  CHOOSE i \in 1..Len(chats[k].messages.text) :
    /\ chats[k].messages.text[i].id = m
    /\ \A j \in 1..(i - 1) : chats[k].messages.text[j].id # m

\* What every fork does besides naming the new chat: a successful fork adds
\* one record under a new id with the messages up to and including the
\* given one and changes no other record; a fork of a missing chat or
\* message fails; a fork that fails adds or changes nothing.
ForkCopies(p) ==
  /\ (ReturnsNewId(p) /\ req[p].op = "forkChat") =>
       LET src == SourceOf(req[p].id)
           new == result'[p].id
       IN /\ new \notin DOMAIN chats
          /\ DOMAIN chats' = DOMAIN chats \cup {new}
          /\ chats'[new].messages.text =
               SubSeq(chats[src].messages.text, 1, PositionOf(src, req[p].messageId))
          /\ \A k \in DOMAIN chats : chats'[k] = chats[k]
  /\ (/\ req[p].op = "forkChat"
      /\ pc[p] = "getMessages:byUrlId"
      /\ Stepped(p)
      /\ ~\E k \in DOMAIN chats : chats[k].urlId = req[p].id) =>
       result'[p].status = "error"
  /\ (/\ req[p].op = "forkChat"
      /\ pc[p] \in {"getMessages:byId", "getMessages:byUrlId"}
      /\ Stepped(p)
      /\ \E k \in DOMAIN chats : (k = req[p].id \/ chats[k].urlId = req[p].id)
      /\ (pc[p] = "getMessages:byUrlId" \/ req[p].id \in DOMAIN chats)
      /\ \A i \in 1..Len(chats[SourceOf(req[p].id)].messages.text) :
           chats[SourceOf(req[p].id)].messages.text[i].id # req[p].messageId) =>
       result'[p].status = "error"
  /\ (req[p].op = "forkChat" /\ Stepped(p) /\ result'[p].status = "error") =>
       chats' = chats

\* C15 (as claimed): forkChat creates a new record with the messages up to
\* the given one, and its description is the source description followed
\* by " (fork)".
C15_ForkDescriptionSuffixed ==
  [][\A p \in Procs :
       /\ ForkCopies(p)
       /\ (ReturnsNewId(p) /\ req[p].op = "forkChat") =>
            chats'[result'[p].id].description =
              chats[SourceOf(req[p].id)].description \o <<" (fork)">>]_vars

\* C15 (amended): forkChat creates a new record with the messages up to the
\* given one; its description is the source description followed by
\* " (fork)" when the source has a non-empty description and "Forked chat"
\* when it has none.  createChatFromMessages("demo", [m]) on an empty store
\* returns "1" and forkChat("1", m.id) then returns "2".
C15_ForkChat ==
  [][\A p \in Procs :
       /\ ForkCopies(p)
       /\ (ReturnsNewId(p) /\ req[p].op = "forkChat") =>
            LET d == chats[SourceOf(req[p].id)].description
            IN chats'[result'[p].id].description =
                 IF d = NULL \/ d = <<>> THEN <<"Forked chat">> ELSE d \o <<" (fork)">>
       /\ (ReturnsNewId(p) /\ DOMAIN chats = {}) => result'[p].id = <<"1">>
       /\ (ReturnsNewId(p) /\ DOMAIN chats = {<<"1">>}) => result'[p].id = <<"2">>]_vars

\* forkChat("1", "m1") returned "2" for the chat "demo" with the one
\* message m1: chat 2 is "demo (fork)" with that message.
C15_Witness ==
  \E p \in Procs :
    /\ req[p].op = "forkChat" /\ req[p].id = <<"1">> /\ req[p].messageId = "m1"
    /\ pc[p] = "done" /\ result[p].status = "ok" /\ result[p].id = <<"2">>
    /\ DOMAIN chats = {<<"1">>, <<"2">>}
    /\ chats[<<"1">>].description = <<"demo">>
    /\ chats[<<"1">>].messages = JSONstringify(MPlain)
    /\ chats[<<"2">>].description = <<"demo", " (fork)">>
    /\ chats[<<"2">>].messages = JSONstringify(MPlain)

\* ---------------------------------------------------- timestamp validation
\* C16 (as claimed): a setMessages call whose timestamp was supplied and
\* does not parse as a date (the empty string included) has failed with
\* "Invalid timestamp" before issuing any statement.
C16_RejectsInvalidTimestamp ==
  \A p \in Procs :
    (/\ req[p].op = "setMessages"
     /\ req[p].timestamp # UNDEF
     /\ req[p].timestamp \notin ValidDates) =>
       /\ pc[p] = "done"
       /\ result[p].error = "Invalid timestamp"
       /\ calls[p] = <<>>

\* ----------------------------------------------------------------- snapshots
\* Two requests at a time write chats and set, read and delete snapshots.
NextSnap ==
  \E p \in TwoProcs :
    \/ \E id \in TwoChats : CallSetMessages(p, id, MPlain, NULL, NULL, UNDEF, UNDEF)
    \/ \E ok \in BOOLEAN : SetMessagesRun(p, ok)
    \/ \E c \in TwoChats : \E d \in {"snapA", "snapB"} : CallSetSnapshot(p, c, d)
    \/ \E ok \in BOOLEAN : SetSnapshotRun(p, ok)
    \/ \E c \in TwoChats : CallGetSnapshot(p, c)
    \/ \E ok \in BOOLEAN : GetSnapshotRun(p, ok)
    \/ \E c \in TwoChats : CallDeleteSnapshot(p, c)
    \/ \E ok \in BOOLEAN : DeleteSnapshotRun(p, ok)
    \/ \E c \in TwoChats : CallDeleteChat(p, c)
    \/ \E ok \in BOOLEAN : DeleteByIdRun(p, ok)

SpecSnap == InitReady /\ [][NextSnap]_vars

\* Request p completes the statement it awaits at pc value at, successfully.
Succeeds(p, at) ==
  /\ pc[p] = at
  /\ Stepped(p)
  /\ result'[p].status = "ok"

\* The snapshots of all chats but c are as they were.
OtherSnapshotsKept(c) ==
  /\ DOMAIN snapshots' \ {c} = DOMAIN snapshots \ {c}
  /\ \A k \in DOMAIN snapshots \ {c} : snapshots'[k] = snapshots[k]

\* C17: a chat has at most one snapshot: a successful setSnapshot(c, s)
\* makes s the snapshot of c, replacing any earlier one, a successful
\* deleteSnapshot(c) or deleteChat(c) leaves c without snapshot, nothing
\* else changes a snapshot, and getSnapshot(c) returns the snapshot c has
\* at that time, or absent.
C17_SnapshotPerChat ==
  [][/\ \A p \in Procs :
          /\ Succeeds(p, "setSnapshot:run") =>
               /\ req[p].chatId \in DOMAIN snapshots'
               /\ snapshots'[req[p].chatId] = <<"json", req[p].snapshot>>
               /\ OtherSnapshotsKept(req[p].chatId)
          /\ Succeeds(p, "deleteSnapshot:run") =>
               /\ req[p].chatId \notin DOMAIN snapshots'
               /\ OtherSnapshotsKept(req[p].chatId)
          /\ Succeeds(p, "deleteById:run") =>
               /\ req[p].id \notin DOMAIN snapshots'
               /\ OtherSnapshotsKept(req[p].id)
          /\ Succeeds(p, "getSnapshot:run") =>
               IF req[p].chatId \in DOMAIN snapshots
               THEN result'[p].found /\ <<"json", result'[p].data>> = snapshots[req[p].chatId]
               ELSE ~result'[p].found /\ result'[p].data = UNDEF
     /\ (\A p \in Procs :
           ~(Succeeds(p, "setSnapshot:run") \/ Succeeds(p, "deleteSnapshot:run")
               \/ Succeeds(p, "deleteById:run"))) => snapshots' = snapshots]_vars

\* getSnapshot(c) returned the payload of the second setSnapshot(c, .).
C17_Witness ==
  \E p, q \in Procs :
    /\ req[p].op = "getSnapshot" /\ pc[p] = "done" /\ result[p].status = "ok"
    /\ result[p].found /\ result[p].data = "snapB"
    /\ req[q].op = "setSnapshot" /\ pc[q] = "done" /\ result[q].status = "ok"
    /\ req[q].chatId = req[p].chatId /\ req[q].snapshot = "snapB"
    /\ DOMAIN snapshots = {req[p].chatId}

\* ------------------------------------------------------ deleteFile, repeated
\* C18: deleteFile(id) on an id that has neither blob nor row, as it is
\* after a successful deleteFile(id), changes neither the object store nor
\* the files table and succeeds whenever its two backend calls do; a
\* successful deleteFile(id) leaves id with neither blob nor row.
C18_DeleteFileIdempotent ==
  [][\A p \in Procs :
       LET f == req[p].fileId IN
       /\ (/\ pc[p] = "deleteFile:r2" /\ Stepped(p)
           /\ f \notin DOMAIN blobs /\ f \notin DOMAIN files) =>
            /\ blobs' = blobs /\ files' = files
            /\ result'[p].status # "error" => pc'[p] = "deleteFile:d1"
       /\ (pc[p] = "deleteFile:d1" /\ Stepped(p) /\ f \notin DOMAIN files) =>
            /\ blobs' = blobs /\ files' = files
            /\ result'[p].error \notin {"D1 unavailable", "no such table"} =>
                 result'[p].status = "ok"
       /\ Succeeds(p, "deleteFile:d1") =>
            f \notin DOMAIN blobs' /\ f \notin DOMAIN files']_vars

\* Two deleteFile calls on the id of a stored file have both succeeded.
C18_Witness ==
  \E p, q \in Procs :
    /\ p # q
    /\ req[p].op = "deleteFile" /\ req[q].op = "deleteFile"
    /\ req[p].fileId = req[q].fileId /\ req[p].fileId \in 1..uuidCount
    /\ pc[p] = "done" /\ result[p].status = "ok"
    /\ pc[q] = "done" /\ result[q].status = "ok"
    /\ calls[q] = <<"r2.delete", "d1.delete">>
    /\ req[p].fileId \notin DOMAIN blobs /\ req[p].fileId \notin DOMAIN files

\* ------------------------------------------------------------ cloudflare-kv
\* `session:`, `cache:` and `apikeys:` as character sequences.
SessionPrefix == <<"s", "e", "s", "s", "i", "o", "n", ":">>
CachePrefix == <<"c", "a", "c", "h", "e", ":">>
ApiKeysPrefix == <<"a", "p", "i", "k", "e", "y", "s", ":">>

\* The prefix the context gives its CloudflareKVStore: none.
KvPrefix == <<>>

\* Default expirationTtl of setSession and setCache, in seconds.
SessionTtl == 3600
CacheTtl == 300

\* Helpers that pass the caller's id on as the key.
KvHelperKeyBare(kind, id) == id

\* The key a helper of the given record type passes to set/get/delete;
\* "raw" is a direct call of set/get/delete with the caller's key.
KvHelperKey(kind, id) ==
  IF kind = "session" THEN SessionPrefix \o id
  ELSE IF kind = "cache" THEN CachePrefix \o id
  ELSE IF kind = "apikeys" THEN ApiKeysPrefix \o id
  ELSE id

\* getFullKey: this.prefix ? `${this.prefix}/${key}` : key
KvGetFullKey(key) == IF KvPrefix # <<>> THEN KvPrefix \o <<"/">> \o key ELSE key

KvFullKey(kind, id) == KvGetFullKey(KvHelperKey(kind, id))

\* The options the helpers pass to set: { expirationTtl }, or none (0).
KvTtl(kind) ==
  IF kind = "session" THEN SessionTtl ELSE IF kind = "cache" THEN CacheTtl ELSE 0

\* JSON.stringify(value) / JSON.parse(text) for plain JSON data.
KvStringify(value) == <<"json", value>>
KvParse(text) == text[2]

\* set / setSession / setCache / setApiKeys
CallKvSet(p, kind, id, value) ==
  /\ cfContext # "null"
  /\ Start(p, [NoReq EXCEPT !.op = "kv.set", !.kind = kind, !.id = id,
                            !.data = value, !.ttl = KvTtl(kind)], NoLoc, "kv:put")
  /\ UNCHANGED <<dbVars, blobs, uuidCount, ctxVars, issued, kv>>

\* A put that does not replace a value the key already has.
KvPutKeep(p, ok) ==
  /\ pc[p] = "kv:put"
  /\ IF ok
     THEN /\ kv' = IF KvFullKey(req[p].kind, req[p].id) \in DOMAIN kv THEN kv
                   ELSE Put(kv, KvFullKey(req[p].kind, req[p].id),
                            [text |-> KvStringify(req[p].data), ttl |-> req[p].ttl])
          /\ Finish(p, "kv.put", Ok)
     ELSE /\ kv' = kv
          /\ Finish(p, "kv.put", Err("KV unavailable"))
  /\ UNCHANGED <<dbVars, blobs, uuidCount, ctxVars, issued>>

\* await this.namespace.put(fullKey, serializedValue, options)
KvPut(p, ok) ==
  /\ pc[p] = "kv:put"
  /\ IF ok
     THEN /\ kv' = Put(kv, KvFullKey(req[p].kind, req[p].id),
                       [text |-> KvStringify(req[p].data), ttl |-> req[p].ttl])
          /\ Finish(p, "kv.put", Ok)
     ELSE /\ kv' = kv
          /\ Finish(p, "kv.put", Err("KV unavailable"))
  /\ UNCHANGED <<dbVars, blobs, uuidCount, ctxVars, issued>>

\* get / getSession / getCache / getApiKeys
CallKvGet(p, kind, id) ==
  /\ cfContext # "null"
  /\ Start(p, [NoReq EXCEPT !.op = "kv.get", !.kind = kind, !.id = id], NoLoc, "kv:get")
  /\ UNCHANGED <<dbVars, blobs, uuidCount, ctxVars, issued, kv>>

\* A get that reports a failed read as an absent value.
KvGetAbsentOnFailure(p, ok) ==
  /\ pc[p] = "kv:get"
  /\ IF ok /\ KvFullKey(req[p].kind, req[p].id) \in DOMAIN kv
     THEN Finish(p, "kv.get",
                 [Ok EXCEPT !.found = TRUE,
                            !.data = KvParse(kv[KvFullKey(req[p].kind, req[p].id)].text)])
     ELSE Finish(p, "kv.get", Ok)
  /\ UNCHANGED <<dbVars, blobs, uuidCount, ctxVars, issued, kv>>

\* await this.namespace.get(fullKey): null when the key is missing
KvGet(p, ok) ==
  /\ pc[p] = "kv:get"
  /\ IF ~ok
     THEN Finish(p, "kv.get", Err("KV unavailable"))
     ELSE IF KvFullKey(req[p].kind, req[p].id) \in DOMAIN kv
     THEN Finish(p, "kv.get",
                 [Ok EXCEPT !.found = TRUE,
                            !.data = KvParse(kv[KvFullKey(req[p].kind, req[p].id)].text)])
     ELSE Finish(p, "kv.get", Ok)
  /\ UNCHANGED <<dbVars, blobs, uuidCount, ctxVars, issued, kv>>

\* delete / deleteSession / deleteCache
CallKvDelete(p, kind, id) ==
  /\ cfContext # "null"
  /\ Start(p, [NoReq EXCEPT !.op = "kv.delete", !.kind = kind, !.id = id], NoLoc,
           "kv:delete")
  /\ UNCHANGED <<dbVars, blobs, uuidCount, ctxVars, issued, kv>>

\* await this.namespace.delete(fullKey): a no-op on a missing key
KvDelete(p, ok) ==
  /\ pc[p] = "kv:delete"
  /\ IF ok
     THEN /\ kv' = Drop(kv, {KvFullKey(req[p].kind, req[p].id)})
          /\ Finish(p, "kv.delete", Ok)
     ELSE /\ kv' = kv
          /\ Finish(p, "kv.delete", Err("KV unavailable"))
  /\ UNCHANGED <<dbVars, blobs, uuidCount, ctxVars, issued>>

\* Record types with helpers, and the ids callers pass: a plain id and one
\* that starts with another record type's prefix.
KvKinds == {"session", "cache", "apikeys"}
KvIds == {<<"u">>, CachePrefix \o <<"u">>}
KvValues == {"v1", "v2"}

\* The session, cache and credential helpers, one call at a time.
NextKvNs ==
  \E p \in {1} :
    \/ \E k \in KvKinds : \E id \in KvIds : \E v \in KvValues : CallKvSet(p, k, id, v)
    \/ \E ok \in BOOLEAN : KvPut(p, ok)
    \/ \E k \in KvKinds : \E id \in KvIds : CallKvGet(p, k, id)
    \/ \E ok \in BOOLEAN : KvGet(p, ok)
    \/ \E k \in {"session", "cache"} : \E id \in KvIds : CallKvDelete(p, k, id)
    \/ \E ok \in BOOLEAN : KvDelete(p, ok)

SpecKvNs == InitReady /\ [][NextKvNs]_vars

\* What the getter of a record type returns for id in a given store.
KvRead(store, kind, id) ==
  IF KvFullKey(kind, id) \in DOMAIN store
  THEN store[KvFullKey(kind, id)].text[2] ELSE UNDEF

\* C19: the backend keys of the session, cache and credential helpers
\* differ between record types for all ids, and a set or delete through one
\* record type's helper changes nothing the getters of the other two return.
C19_NamespacesDisjoint ==
  [][/\ \A k1, k2 \in KvKinds : \A x, y \in KvIds :
          k1 # k2 => KvFullKey(k1, x) # KvFullKey(k2, y)
     /\ \A p \in Procs :
          (pc[p] \in {"kv:put", "kv:delete"} /\ Stepped(p)) =>
            \A k2 \in KvKinds \ {req[p].kind} : \A y \in KvIds :
              KvRead(kv', k2, y) = KvRead(kv, k2, y)]_vars

\* The session with id "cache:u" and the cache entry "u" hold different
\* values after deleteCache("cache:u") has run.
C19_Witness ==
  \E p \in Procs :
    /\ req[p].op = "kv.delete" /\ req[p].kind = "cache"
    /\ req[p].id = CachePrefix \o <<"u">>
    /\ pc[p] = "done" /\ result[p].status = "ok"
    /\ KvRead(kv, "session", CachePrefix \o <<"u">>) = "v1"
    /\ KvRead(kv, "cache", <<"u">>) = "v2"
    /\ KvRead(kv, "apikeys", <<"u">>) = "v1"

\* set, get and delete with the caller's own keys, two requests at a time.
KvKeys == {<<"k">>, <<"j">>}

NextKv ==
  \E p \in TwoProcs :
    \/ \E k \in KvKeys : \E v \in KvValues : CallKvSet(p, "raw", k, v)
    \/ \E ok \in BOOLEAN : KvPut(p, ok)
    \/ \E k \in KvKeys : CallKvGet(p, "raw", k)
    \/ \E ok \in BOOLEAN : KvGet(p, ok)
    \/ \E k \in KvKeys : CallKvDelete(p, "raw", k)
    \/ \E ok \in BOOLEAN : KvDelete(p, ok)

SpecKv == InitReady /\ [][NextKv]_vars

\* The entries of all keys but key are as they were.
OtherKeysKept(key) ==
  /\ DOMAIN kv' \ {key} = DOMAIN kv \ {key}
  /\ \A k \in DOMAIN kv \ {key} : kv'[k] = kv[k]

\* C20: the key-value store is a map: a successful set(k, v) makes v the
\* value of k, replacing any earlier one, a successful delete(k) leaves k
\* absent, neither changes another key and nothing else changes a key;
\* delete of an absent key succeeds when the backend call does; get(k)
\* returns the value k has, or absent as a successful null result.
C20_KvIsMap ==
  [][/\ \A p \in Procs :
          LET key == req[p].id IN
          /\ Succeeds(p, "kv:put") =>
               /\ key \in DOMAIN kv'
               /\ kv'[key].text = <<"json", req[p].data>>
               /\ OtherKeysKept(key)
          /\ Succeeds(p, "kv:delete") =>
               /\ key \notin DOMAIN kv'
               /\ OtherKeysKept(key)
          /\ (pc[p] = "kv:delete" /\ Stepped(p) /\ key \notin DOMAIN kv
                /\ result'[p].error # "KV unavailable") =>
               result'[p].status = "ok" /\ kv' = kv
          /\ (pc[p] = "kv:get" /\ Stepped(p) /\ result'[p].error # "KV unavailable") =>
               /\ result'[p].status = "ok"
               /\ IF key \in DOMAIN kv
                  THEN result'[p].found /\ <<"json", result'[p].data>> = kv[key].text
                  ELSE ~result'[p].found /\ result'[p].data = UNDEF
     /\ (\A p \in Procs : ~(Succeeds(p, "kv:put") \/ Succeeds(p, "kv:delete"))) =>
          kv' = kv]_vars

\* get(k) returned the value of the second set(k, .) while the other key
\* is absent after a delete.
C20_Witness ==
  \E p, q \in Procs :
    /\ req[p].op = "kv.get" /\ pc[p] = "done" /\ result[p].status = "ok"
    /\ result[p].found /\ result[p].data = "v2"
    /\ req[q].op = "kv.delete" /\ pc[q] = "done" /\ result[q].status = "ok"
    /\ req[q].id # req[p].id
    /\ DOMAIN kv = {req[p].id}
    /\ kv[req[p].id].text = <<"json", "v2">>

\* ------------------------------------------------------- cloudflare-storage
\* CloudflareStorage called directly (context.getStorage()).  Keys are the
\* ids files are stored under; the context builds the storage without a
\* prefix, so getFullKey(key) is key.

\* An awaited backend call as the request's log shows it, marked when the
\* backend failed it.
Outcome(call, ok) == IF ok THEN call ELSE call \o " failed"

FailedCalls ==
  {Outcome(c, FALSE) :
     c \in {"r2.put", "r2.get", "r2.head", "r2.delete", "r2.list", "d1.select"}}

\* The last backend call of request p failed.
LastCallFailed(p) == calls[p] # <<>> /\ calls[p][Len(calls[p])] \in FailedCalls

\* text.replace(/\/+/g, '/'): every run of '/' becomes one '/'.
RECURSIVE Collapse(_)
Collapse(text) ==
  IF Len(text) < 2 THEN text
  ELSE IF text[1] = "/" /\ text[2] = "/" THEN Collapse(Tail(text))
  ELSE <<text[1]>> \o Collapse(Tail(text))

\* this.prefix ? `${this.prefix}/${key}`.replace(/\/+/g, '/') : key
GetFullKey(prefix, key) ==
  IF prefix # <<>> THEN Collapse(prefix \o <<"/">> \o key) ELSE key

\* new CloudflareStorage(bindings.BOLT_STORAGE): the prefix defaults to ''.
StoragePrefix == <<>>

\* getFullKey(key) of the context's storage
StorageFullKey(key) == GetFullKey(StoragePrefix, key)

\* storeFile(key, data, metadata)
CallStorageStoreFile(p, key, data, metadata) ==
  /\ cfContext # "null"
  /\ Start(p, [NoReq EXCEPT !.op = "storage.storeFile", !.fileId = key, !.data = data,
                            !.customMetadata = metadata], NoLoc, "storage.storeFile:put")
  /\ UNCHANGED <<dbVars, blobs, uuidCount, ctxVars, issued, kv>>

\* await this.bucket.put(fullKey, data, { customMetadata: metadata })
StorageStoreFilePut(p, ok) ==
  /\ pc[p] = "storage.storeFile:put"
  /\ IF ok
     THEN /\ blobs' = Put(blobs, StorageFullKey(req[p].fileId),
                          [data |-> req[p].data, customMetadata |-> req[p].customMetadata])
          /\ Finish(p, Outcome("r2.put", ok), [Ok EXCEPT !.fileId = req[p].fileId])
     ELSE /\ blobs' = blobs
          /\ Finish(p, Outcome("r2.put", ok), Err("R2 unavailable"))
  /\ UNCHANGED <<dbVars, uuidCount, ctxVars, issued, kv>>

\* getFile(key) / getFileAsText(key)
CallStorageGetFile(p, key) ==
  /\ cfContext # "null"
  /\ Start(p, [NoReq EXCEPT !.op = "storage.getFile", !.fileId = key], NoLoc,
           "storage.getFile:get")
  /\ UNCHANGED <<dbVars, blobs, uuidCount, ctxVars, issued, kv>>

\* await this.bucket.get(fullKey): null when there is no object, else its body
StorageGetFileGet(p, ok) ==
  /\ pc[p] = "storage.getFile:get"
  /\ IF ~ok
     THEN Finish(p, Outcome("r2.get", ok), Err("R2 unavailable"))
     ELSE IF StorageFullKey(req[p].fileId) \in DOMAIN blobs
     THEN Finish(p, Outcome("r2.get", ok),
                 [Ok EXCEPT !.found = TRUE,
                            !.data = blobs[StorageFullKey(req[p].fileId)].data])
     ELSE Finish(p, Outcome("r2.get", ok), Ok)
  /\ UNCHANGED <<dbVars, blobs, uuidCount, ctxVars, issued, kv>>

\* deleteFile(key)
CallStorageDeleteFile(p, key) ==
  /\ cfContext # "null"
  /\ Start(p, [NoReq EXCEPT !.op = "storage.deleteFile", !.fileId = key], NoLoc,
           "storage.deleteFile:delete")
  /\ UNCHANGED <<dbVars, blobs, uuidCount, ctxVars, issued, kv>>

\* await this.bucket.delete(fullKey): a no-op on a missing key
StorageDeleteFileDelete(p, ok) ==
  /\ pc[p] = "storage.deleteFile:delete"
  /\ IF ok
     THEN /\ blobs' = Drop(blobs, {StorageFullKey(req[p].fileId)})
          /\ Finish(p, Outcome("r2.delete", ok), Ok)
     ELSE /\ blobs' = blobs
          /\ Finish(p, Outcome("r2.delete", ok), Err("R2 unavailable"))
  /\ UNCHANGED <<dbVars, uuidCount, ctxVars, issued, kv>>

\* listFiles() with the default prefix '' and limit 1000
CallStorageListFiles(p) ==
  /\ cfContext # "null"
  /\ Start(p, [NoReq EXCEPT !.op = "storage.listFiles"], NoLoc, "storage.listFiles:list")
  /\ UNCHANGED <<dbVars, blobs, uuidCount, ctxVars, issued, kv>>

\* await this.bucket.list({ prefix, limit }): the keys of the objects
StorageListFilesList(p, ok) ==
  /\ pc[p] = "storage.listFiles:list"
  /\ IF ok
     THEN Finish(p, Outcome("r2.list", ok), [Ok EXCEPT !.rows = DOMAIN blobs])
     ELSE Finish(p, Outcome("r2.list", ok), Err("R2 unavailable"))
  /\ UNCHANGED <<dbVars, blobs, uuidCount, ctxVars, issued, kv>>

\* getFileMetadata(key)
CallStorageGetFileMetadata(p, key) ==
  /\ cfContext # "null"
  /\ Start(p, [NoReq EXCEPT !.op = "storage.getFileMetadata", !.fileId = key], NoLoc,
           "storage.getFileMetadata:head")
  /\ UNCHANGED <<dbVars, blobs, uuidCount, ctxVars, issued, kv>>

\* await this.bucket.head(fullKey): null, or object.customMetadata
StorageGetFileMetadataHead(p, ok) ==
  /\ pc[p] = "storage.getFileMetadata:head"
  /\ IF ~ok
     THEN Finish(p, Outcome("r2.head", ok), Err("R2 unavailable"))
     ELSE IF StorageFullKey(req[p].fileId) \in DOMAIN blobs
     THEN Finish(p, Outcome("r2.head", ok),
                 [Ok EXCEPT !.found = TRUE,
                            !.customMetadata =
                               blobs[StorageFullKey(req[p].fileId)].customMetadata])
     ELSE Finish(p, Outcome("r2.head", ok), Ok)
  /\ UNCHANGED <<dbVars, blobs, uuidCount, ctxVars, issued, kv>>

\* updateFileMetadata(key, metadata)
CallStorageUpdateFileMetadata(p, key, metadata) ==
  /\ cfContext # "null"
  /\ Start(p, [NoReq EXCEPT !.op = "storage.updateFileMetadata", !.fileId = key,
                            !.customMetadata = metadata], NoLoc,
           "storage.updateFileMetadata:get")
  /\ UNCHANGED <<dbVars, blobs, uuidCount, ctxVars, issued, kv>>

\* const object = await this.bucket.get(fullKey); if (!object) throw ...;
\* await object.arrayBuffer(): the body of the object that get returned
StorageUpdateFileMetadataGet(p, ok) ==
  /\ pc[p] = "storage.updateFileMetadata:get"
  /\ IF ~ok
     THEN Finish(p, Outcome("r2.get", ok), Err("R2 unavailable"))
     ELSE IF StorageFullKey(req[p].fileId) \notin DOMAIN blobs
     THEN Finish(p, Outcome("r2.get", ok), Err("File not found"))
     ELSE /\ Step(p, Outcome("r2.get", ok), "storage.updateFileMetadata:put")
          /\ loc' = [loc EXCEPT ![p].data = blobs[StorageFullKey(req[p].fileId)].data]
  /\ UNCHANGED <<dbVars, blobs, uuidCount, ctxVars, issued, kv>>

\* The metadata left by a rewrite that merges the new map into the old one.
RewrittenMetadataMerged(old, new) ==
  [k \in DOMAIN old \cup DOMAIN new |-> IF k \in DOMAIN new THEN new[k] ELSE old[k]]

\* { customMetadata: metadata }: the new map, whatever the old one was
RewrittenMetadata(old, new) == new

\* await this.bucket.put(fullKey, <the body read>, { customMetadata: metadata })
StorageUpdateFileMetadataPut(p, ok) ==
  /\ pc[p] = "storage.updateFileMetadata:put"
  /\ LET k == StorageFullKey(req[p].fileId)
         old == IF k \in DOMAIN blobs THEN blobs[k].customMetadata ELSE EmptyFn
     IN IF ok
        THEN /\ blobs' = Put(blobs, k,
                             [data |-> loc[p].data,
                              customMetadata |->
                                 RewrittenMetadata(old, req[p].customMetadata)])
             /\ Finish(p, Outcome("r2.put", ok), Ok)
        ELSE /\ blobs' = blobs
             /\ Finish(p, Outcome("r2.put", ok), Err("R2 unavailable"))
  /\ UNCHANGED <<dbVars, uuidCount, ctxVars, issued, kv>>

\* fileExists(key)
CallStorageFileExists(p, key) ==
  /\ cfContext # "null"
  /\ Start(p, [NoReq EXCEPT !.op = "storage.fileExists", !.fileId = key], NoLoc,
           "storage.fileExists:head")
  /\ UNCHANGED <<dbVars, blobs, uuidCount, ctxVars, issued, kv>>

\* A fileExists that lets the error of the probe through.
StorageFileExistsHeadThrows(p, ok) ==
  /\ pc[p] = "storage.fileExists:head"
  /\ IF ok
     THEN Finish(p, Outcome("r2.head", ok),
                 [Ok EXCEPT !.found = StorageFullKey(req[p].fileId) \in DOMAIN blobs])
     ELSE Finish(p, Outcome("r2.head", ok), Err("R2 unavailable"))
  /\ UNCHANGED <<dbVars, blobs, uuidCount, ctxVars, issued, kv>>

\* const object = await this.bucket.head(fullKey); return object !== null;
\* catch: return false
StorageFileExistsHead(p, ok) ==
  /\ pc[p] = "storage.fileExists:head"
  /\ IF ok
     THEN Finish(p, Outcome("r2.head", ok),
                 [Ok EXCEPT !.found = StorageFullKey(req[p].fileId) \in DOMAIN blobs])
     ELSE Finish(p, Outcome("r2.head", ok), [Ok EXCEPT !.found = FALSE])
  /\ UNCHANGED <<dbVars, blobs, uuidCount, ctxVars, issued, kv>>

\* Metadata maps callers attach, and the bytes they store.
MetaMaps == {EmptyFn, [path |-> "a.txt", tag |-> "x"], [tag |-> "y"]}
StorageData == {"hi", "hello"}

\* The object store, one call at a time.
NextStore ==
  \E p \in {1} :
    \/ \E k \in FileIds : \E d \in StorageData : \E m \in MetaMaps :
         CallStorageStoreFile(p, k, d, m)
    \/ \E ok \in BOOLEAN : StorageStoreFilePut(p, ok)
    \/ \E k \in FileIds : CallStorageGetFile(p, k)
    \/ \E ok \in BOOLEAN : StorageGetFileGet(p, ok)
    \/ \E k \in FileIds : CallStorageDeleteFile(p, k)
    \/ \E ok \in BOOLEAN : StorageDeleteFileDelete(p, ok)
    \/ CallStorageListFiles(p)
    \/ \E ok \in BOOLEAN : StorageListFilesList(p, ok)
    \/ \E k \in FileIds : CallStorageGetFileMetadata(p, k)
    \/ \E ok \in BOOLEAN : StorageGetFileMetadataHead(p, ok)
    \/ \E k \in FileIds : \E m \in MetaMaps : CallStorageUpdateFileMetadata(p, k, m)
    \/ \E ok \in BOOLEAN : StorageUpdateFileMetadataGet(p, ok)
    \/ \E ok \in BOOLEAN : StorageUpdateFileMetadataPut(p, ok)
    \/ \E k \in FileIds : CallStorageFileExists(p, k)
    \/ \E ok \in BOOLEAN : StorageFileExistsHead(p, ok)

SpecStore == InitReady /\ [][NextStore]_vars

StoragePcs ==
  {"storage.storeFile:put", "storage.getFile:get", "storage.deleteFile:delete",
   "storage.listFiles:list", "storage.getFileMetadata:head",
   "storage.updateFileMetadata:get", "storage.updateFileMetadata:put"}

\* C21: fileExists never ends with an error: it returns true exactly when
\* its probe succeeds and the blob exists, and false when the probe fails;
\* every other operation of the object store ends with the error when its
\* backend call fails.
C21_FileExistsNeverFails ==
  [][\A p \in Procs :
       /\ (pc[p] = "storage.fileExists:head" /\ Stepped(p)) =>
            /\ pc'[p] = "done"
            /\ result'[p].status = "ok"
            /\ result'[p].found =
                 (~LastCallFailed(p)' /\ StorageFullKey(req[p].fileId) \in DOMAIN blobs)
            /\ blobs' = blobs
       /\ (pc[p] \in StoragePcs /\ Stepped(p) /\ LastCallFailed(p)') =>
            /\ pc'[p] = "done"
            /\ result'[p].status = "error"
            /\ blobs' = blobs]_vars

\* fileExists returned false on a failed probe although the blob exists.
C21_Witness ==
  \E p \in Procs :
    /\ req[p].op = "storage.fileExists" /\ pc[p] = "done"
    /\ result[p].status = "ok" /\ ~result[p].found
    /\ LastCallFailed(p)
    /\ req[p].fileId \in DOMAIN blobs

\* C22: updateFileMetadata(key, metadata) on an existing blob leaves its
\* bytes as they are and makes its metadata exactly the given map, changing
\* no other blob; on a key without blob it ends with an error and the bucket
\* is unchanged.
C22_UpdateFileMetadata ==
  [][\A p \in Procs :
       LET k == req[p].fileId IN
       /\ (pc[p] = "storage.updateFileMetadata:get" /\ Stepped(p)) =>
            /\ blobs' = blobs
            /\ k \notin DOMAIN blobs =>
                 pc'[p] = "done" /\ result'[p].status = "error"
            /\ pc'[p] # "done" => k \in DOMAIN blobs
       /\ (pc[p] = "storage.updateFileMetadata:put" /\ Stepped(p)) =>
            /\ k \in DOMAIN blobs
            /\ pc'[p] = "done"
            /\ result'[p].status = "ok" =>
                 /\ DOMAIN blobs' = DOMAIN blobs
                 /\ blobs'[k].data = blobs[k].data
                 /\ blobs'[k].customMetadata = req[p].customMetadata
                 /\ \A j \in DOMAIN blobs \ {k} : blobs'[j] = blobs[j]
            /\ result'[p].status # "ok" => blobs' = blobs]_vars

\* An updateFileMetadata replaced a two-field map by a one-field map.
C22_Witness ==
  \E p \in Procs :
    /\ req[p].op = "storage.updateFileMetadata" /\ pc[p] = "done"
    /\ result[p].status = "ok"
    /\ req[p].customMetadata = [tag |-> "y"]
    /\ blobs[req[p].fileId] = [data |-> "hello", customMetadata |-> [tag |-> "y"]]
    /\ Cardinality(DOMAIN blobs) = 2

\* ------------------------------------------------------- searchFilesByPath
UpperLetters == <<"A", "B", "C", "D", "E", "F", "G", "H", "I", "J", "K", "L", "M",
                  "N", "O", "P", "Q", "R", "S", "T", "U", "V", "W", "X", "Y", "Z">>
LowerLetters == <<"a", "b", "c", "d", "e", "f", "g", "h", "i", "j", "k", "l", "m",
                  "n", "o", "p", "q", "r", "s", "t", "u", "v", "w", "x", "y", "z">>

\* SQLite LIKE compares ASCII letters without regard to case.
Fold(c) ==
  IF \E i \in 1..26 : UpperLetters[i] = c
  THEN LowerLetters[CHOOSE i \in 1..26 : UpperLetters[i] = c]
  ELSE c

\* text LIKE pattern: % matches any run of characters, _ any one character.
RECURSIVE Like(_, _)
Like(pattern, text) ==
  IF pattern = <<>> THEN text = <<>>
  ELSE IF Head(pattern) = "%"
  THEN Like(Tail(pattern), text) \/ (text # <<>> /\ Like(pattern, Tail(text)))
  ELSE IF text = <<>> THEN FALSE
  ELSE IF Head(pattern) = "_" THEN Like(Tail(pattern), Tail(text))
  ELSE Fold(Head(pattern)) = Fold(Head(text)) /\ Like(Tail(pattern), Tail(text))

\* `%${pathPattern}%`
LikeArgument(pathPattern) == <<"%">> \o pathPattern \o <<"%">>

\* SELECT * FROM files WHERE path LIKE ?
SearchFilesByPath(rows, pathPattern) ==
  {f \in DOMAIN rows : Like(LikeArgument(pathPattern), rows[f].path)}

\* searchFilesByPath(pathPattern)
CallSearchFilesByPath(p, pathPattern) ==
  /\ cfContext # "null"
  /\ Start(p, [NoReq EXCEPT !.op = "searchFilesByPath", !.pattern = pathPattern],
           NoLoc, "searchFilesByPath:run")
  /\ UNCHANGED <<dbVars, blobs, uuidCount, ctxVars, issued, kv>>

SearchFilesByPathRun(p, ok) ==
  /\ pc[p] = "searchFilesByPath:run"
  /\ IF D1Error(ok, "files") # ""
     THEN Finish(p, "d1.select", Err(D1Error(ok, "files")))
     ELSE Finish(p, "d1.select",
                 [Ok EXCEPT !.rows = SearchFilesByPath(files, req[p].pattern)])
  /\ UNCHANGED <<dbVars, blobs, uuidCount, ctxVars, issued, kv>>

\* Paths of stored files and patterns searched for.
PathReport == <<"Q", "3", "-", "r", "e", "p", "o", "r", "t", "-", "f", "i", "n", "a",
                "l", ".", "p", "d", "f">>
PathNotes == <<"n", "o", "t", "e", "s", ".", "t", "x", "t">>
SearchPaths == {PathReport, PathNotes, <<"a", "_", "c">>, <<"a", "b", "c">>}
SearchPatterns ==
  {<<"r", "e", "p", "o", "r", "t">>, <<"R", "e", "p", "o", "r", "t">>,
   <<"a", "_", "c">>, <<"%">>, <<"t", "x", "t">>, <<"z">>}

\* A files table whose rows have the given paths.
FilesWithPaths(paths) ==
  [f \in DOMAIN paths |->
     [chatId |-> NULL, path |-> paths[f], size |-> 2, timestamp |-> NOW]]

\* Any files table with rows for some of the file ids.
InitSearch ==
  /\ tables = SchemaTables
  /\ chats = EmptyFn
  /\ snapshots = EmptyFn
  /\ files \in {FilesWithPaths(paths) :
                  paths \in UNION {[S -> SearchPaths] : S \in SUBSET FileIds}}
  /\ blobs = EmptyFn
  /\ uuidCount = 0
  /\ cfContext = "ctx"
  /\ initialized = TRUE
  /\ issued = {}
  /\ pc = [p \in Procs |-> "idle"]
  /\ req = [p \in Procs |-> NoReq]
  /\ loc = [p \in Procs |-> NoLoc]
  /\ result = [p \in Procs |-> NoResult]
  /\ calls = [p \in Procs |-> <<>>]
  /\ kv = EmptyFn

NextSearch ==
  \E p \in {1} :
    \/ \E pattern \in SearchPatterns : CallSearchFilesByPath(p, pattern)
    \/ \E ok \in BOOLEAN : SearchFilesByPathRun(p, ok)

SpecSearch == InitSearch /\ [][NextSearch]_vars

\* pattern occurs in text as a run of consecutive characters, letters being
\* compared as the backend compares them.
Contains(text, pattern) ==
  \E i \in 0..(Len(text) - Len(pattern)) :
    \A j \in 1..Len(pattern) : Fold(text[i + j]) = Fold(pattern[j])

\* C23 (as claimed): searchFilesByPath(pattern) returns exactly the rows
\* whose path contains pattern as a substring, for every pattern.
C23_SearchIsSubstring ==
  \A p \in Procs :
    (req[p].op = "searchFilesByPath" /\ pc[p] = "done" /\ result[p].status = "ok") =>
      result[p].rows = {f \in DOMAIN files : Contains(files[f].path, req[p].pattern)}

\* ------------------------------------------------------------- file routes
\* The handler returns before its first await.
Reply(p, r, res) ==
  /\ Idle(p)
  /\ req' = [req EXCEPT ![p] = r]
  /\ loc' = [loc EXCEPT ![p] = NoLoc]
  /\ pc' = [pc EXCEPT ![p] = "done"]
  /\ result' = [result EXCEPT ![p] = res]
  /\ calls' = [calls EXCEPT ![p] = <<>>]

\* if (!fileManager) return <'File storage not available', status 500>
StorageNotAvailable == Response(Ok, 500, "File storage not available")

\* A path parameter that is missing or empty.
NoFileId == 0 - 1

\* api.file-download loader, up to its first await.
CallRouteDownload(p, f) ==
  /\ LET r == [NoReq EXCEPT !.op = "getFile", !.route = "download", !.fileId = f]
     IN IF f = NoFileId THEN Reply(p, r, Response(Ok, 400, "File ID is required"))
        ELSE IF cfContext = "null" THEN Reply(p, r, StorageNotAvailable)
        ELSE Start(p, r, NoLoc, "route:getFileMetadata")
  /\ UNCHANGED <<dbVars, blobs, uuidCount, ctxVars, issued, kv>>

\* api.delete-file action, up to its first await.
CallRouteDeleteFile(p, method, f) ==
  /\ LET r == [NoReq EXCEPT !.op = "deleteFile", !.route = "delete-file",
                            !.method = method, !.fileId = f]
     IN IF method # "DELETE" THEN Reply(p, r, Response(Ok, 405, "Method not allowed"))
        ELSE IF f = NoFileId THEN Reply(p, r, Response(Ok, 400, "File ID is required"))
        ELSE IF cfContext = "null" THEN Reply(p, r, StorageNotAvailable)
        ELSE Start(p, r, NoLoc, "route:getFileMetadata")
  /\ UNCHANGED <<dbVars, blobs, uuidCount, ctxVars, issued, kv>>

\* fileManager.getFileMetadata(fileId): SELECT * FROM files WHERE id = ?,
\* and the route's `if (!metadata)`.
RouteGetFileMetadata(p, ok) ==
  /\ pc[p] = "route:getFileMetadata"
  /\ IF D1Error(ok, "files") # ""
     THEN Finish(p, Outcome("d1.select", FALSE), Err(D1Error(ok, "files")))
     ELSE IF req[p].fileId \notin DOMAIN files
     THEN Finish(p, "d1.select", Response(Ok, 404, "File not found"))
     ELSE /\ Step(p, "d1.select",
                  IF req[p].route = "download" THEN "route:getFile" ELSE "deleteFile:r2")
          /\ loc' = loc
  /\ UNCHANGED <<dbVars, blobs, uuidCount, ctxVars, issued, kv>>

\* fileManager.getFile(fileId), and the route's `if (!fileData)`.
RouteGetFile(p, ok) ==
  /\ pc[p] = "route:getFile"
  /\ IF ~ok
     THEN Finish(p, Outcome("r2.get", ok), Err("R2 unavailable"))
     ELSE IF R2KeyOf(p) = 0 \/ req[p].fileId \notin DOMAIN blobs
     THEN Finish(p, "r2.get", Response(Ok, 404, "File content not found"))
     ELSE Finish(p, "r2.get", [Ok EXCEPT !.found = TRUE, !.data = blobs[req[p].fileId].data])
  /\ UNCHANGED <<dbVars, blobs, uuidCount, ctxVars, issued, kv>>

\* api.files.$chatId loader, up to its first await.
CallRouteFiles(p, chatId) ==
  /\ LET r == [NoReq EXCEPT !.op = "listFilesForChat", !.route = "files",
                            !.chatId = chatId]
     IN IF chatId = <<>> THEN Reply(p, r, Response(Ok, 400, "Chat ID is required"))
        ELSE IF cfContext = "null" THEN Reply(p, r, StorageNotAvailable)
        ELSE Start(p, r, NoLoc, "route:listFilesForChat")
  /\ UNCHANGED <<dbVars, blobs, uuidCount, ctxVars, issued, kv>>

\* fileManager.listFilesForChat(chatId)
RouteListFilesForChat(p, ok) ==
  /\ pc[p] = "route:listFilesForChat"
  /\ IF D1Error(ok, "files") # ""
     THEN Finish(p, Outcome("d1.select", FALSE), Err(D1Error(ok, "files")))
     ELSE Finish(p, "d1.select", [Ok EXCEPT !.rows = ListFilesForChat(req[p].chatId)])
  /\ UNCHANGED <<dbVars, blobs, uuidCount, ctxVars, issued, kv>>

\* api.search-files loader, up to its first await.
CallRouteSearchFiles(p, query) ==
  /\ LET r == [NoReq EXCEPT !.op = "searchFilesByPath", !.route = "search-files",
                            !.pattern = query]
     IN IF query = <<>> THEN Reply(p, r, Response(Ok, 400, "Search query is required"))
        ELSE IF cfContext = "null" THEN Reply(p, r, StorageNotAvailable)
        ELSE Start(p, r, NoLoc, "searchFilesByPath:run")
  /\ UNCHANGED <<dbVars, blobs, uuidCount, ctxVars, issued, kv>>

\* api.file-upload action, up to the blob write of storeFile.  form is what
\* request.formData() makes of the body: a form with a file, a form without
\* one, or an error.
CallRouteFileUpload(p, method, form, chatId) ==
  /\ LET r == [NoReq EXCEPT !.op = "storeFile", !.route = "file-upload",
                            !.method = method, !.path = PathNotes,
                            !.data = IF form = "file" THEN "hi" ELSE UNDEF,
                            !.chatId = chatId]
     IN IF method # "POST"
        THEN Reply(p, r, Response(Ok, 405, "Method not allowed")) /\ uuidCount' = uuidCount
        ELSE IF form = "malformed"
        THEN /\ Reply(p, r, RouteCatch("file-upload", Err("Could not parse content")))
             /\ uuidCount' = uuidCount
        ELSE IF form = "no file"
        THEN Reply(p, r, Response(Ok, 400, "No file provided")) /\ uuidCount' = uuidCount
        ELSE IF cfContext = "null"
        THEN Reply(p, r, StorageNotAvailable) /\ uuidCount' = uuidCount
        ELSE /\ uuidCount < MaxFiles
             /\ uuidCount' = uuidCount + 1
             /\ Start(p, r, [NoLoc EXCEPT !.fileId = uuidCount + 1], "storeFile:put")
  /\ UNCHANGED <<dbVars, blobs, ctxVars, issued, kv>>

RouteFileIds == KnownFileIds \cup {NoFileId}

\* One worker process serving the root loader and the file routes, one
\* request at a time.
NextRoutes ==
  \E p \in {1} :
    \/ CallLoader(p)
    \/ \E ok \in BOOLEAN : InitializeExec(p, ok)
    \/ \E f \in RouteFileIds : CallRouteDownload(p, f)
    \/ \E m \in {"DELETE", "GET"} : \E f \in RouteFileIds : CallRouteDeleteFile(p, m, f)
    \/ \E ok \in BOOLEAN : RouteGetFileMetadata(p, ok)
    \/ \E ok \in BOOLEAN : RouteGetFile(p, ok)
    \/ \E ok \in BOOLEAN : DeleteFileBlob(p, ok)
    \/ \E ok \in BOOLEAN : DeleteFileRow(p, ok)
    \/ \E c \in {<<>>, <<"1">>} : CallRouteFiles(p, c)
    \/ \E ok \in BOOLEAN : RouteListFilesForChat(p, ok)
    \/ \E q \in {<<>>, <<"t", "x", "t">>} : CallRouteSearchFiles(p, q)
    \/ \E ok \in BOOLEAN : SearchFilesByPathRun(p, ok)
    \/ \E m \in {"POST", "GET"} : \E form \in {"file", "no file", "malformed"} :
         CallRouteFileUpload(p, m, form, <<>>)
    \/ \E ok \in BOOLEAN : StoreFilePut(p, ok)
    \/ \E ok \in BOOLEAN : StoreFileInsert(p, ok)

SpecRoutes == Init /\ [][NextRoutes]_vars

\* The request has the method the route accepts and the parameter it needs.
WellFormed(r) ==
  CASE r.route = "download" -> r.fileId # NoFileId
    [] r.route = "delete-file" -> r.method = "DELETE" /\ r.fileId # NoFileId
    [] r.route = "files" -> r.chatId # <<>>
    [] r.route = "search-files" -> r.pattern # <<>>
    [] r.route = "file-upload" -> r.method = "POST" /\ r.data # UNDEF
    [] OTHER -> FALSE

\* Request p enters a route handler in this step.
Begins(p) ==
  /\ Idle(p)
  /\ req'[p].route # "none"
  /\ <<pc[p], req[p], result[p]>> # <<pc'[p], req'[p], result'[p]>>

C25_InitializeCreatesAllTables ==
  /\ initialized => SchemaTables \subseteq tables
  /\ \A p \in Procs :
       (initialized /\ req[p].op = "storeFile" /\ pc[p] = "done") =>
         result[p].error # "no such table"

\* -------------------------------------------------------- concurrent creates
\* Two requests that create, fork and duplicate chats at the same time.
NextCreate ==
  \E p \in TwoProcs :
    \/ CallCreateChat(p, <<"demo">>, IF p = Writer THEN MPlain ELSE MOther, UNDEF)
    \/ ShortDescriptions /\ CallForkChat(p, <<"1">>, "m1")
    \/ ShortDescriptions /\ CallDuplicateChat(p, <<"1">>)
    \/ \E ok \in BOOLEAN : GetMessagesById(p, ok)
    \/ \E ok \in BOOLEAN : GetMessagesByUrlId(p, ok)
    \/ \E ok \in BOOLEAN : CreateGetNextId(p, ok)
    \/ \E ok \in BOOLEAN : CreateGetUrlId(p, ok)
    \/ \E ok \in BOOLEAN : CreateSetMessages(p, ok)

SpecCreate == InitReady /\ [][NextCreate]_vars

\* C26 (as claimed): every successful createChatFromMessages, forkChat or
\* duplicateChat writes a chat under an id no chat has at that moment, so
\* that calls running concurrently never overwrite each other's chat.
C26_CreateNeverOverwrites ==
  [][\A p \in Procs : ReturnsNewId(p) => result'[p].id \notin DOMAIN chats]_vars

\* ----------------------------------------------------------- api.api-keys
\* const DEFAULT_USER_ID = 'default'
DefaultUserId == <<"d", "e", "f", "a", "u", "l", "t">>

\* The credential set stored for the user: provider -> key, {} when the
\* getter returns null (`await cfContext.getApiKeys(DEFAULT_USER_ID) || {}`).
StoredApiKeys(store) ==
  IF KvFullKey("apikeys", DefaultUserId) \in DOMAIN store
  THEN KvParse(store[KvFullKey("apikeys", DefaultUserId)].text)
  ELSE EmptyFn

\* api.api-keys action, up to its first backend call: a POST with
\* { provider, apiKey } or a DELETE with { provider }.
CallRouteApiKeys(p, method, provider, apiKey) ==
  /\ LET r == [NoReq EXCEPT !.op = "apiKeys", !.route = "api-keys", !.method = method,
                            !.provider = provider, !.apiKey = apiKey]
     IN IF cfContext = "null"
        THEN Reply(p, r, Response(Ok, 500, "KV storage not available"))
        ELSE IF method = "POST" /\ (~Truthy(provider) \/ ~Truthy(apiKey))
        THEN Reply(p, r, Response(Ok, 400, "Provider and API key are required"))
        ELSE IF method = "DELETE" /\ ~Truthy(provider)
        THEN Reply(p, r, Response(Ok, 400, "Provider is required"))
        ELSE IF method \notin {"POST", "DELETE"}
        THEN Reply(p, r, Response(Ok, 405, "Method not allowed"))
        ELSE Start(p, r, NoLoc, "apiKeys:get")
  /\ UNCHANGED <<dbVars, blobs, uuidCount, ctxVars, issued, kv>>

\* const existingKeys = await cfContext.getApiKeys(DEFAULT_USER_ID) || {};
\* then existingKeys[provider] = apiKey, or delete existingKeys[provider]
RouteApiKeysGet(p, ok) ==
  /\ pc[p] = "apiKeys:get"
  /\ LET existingKeys == StoredApiKeys(kv)
     IN IF ~ok
        THEN Finish(p, "kv.get", Err("KV unavailable"))
        ELSE IF req[p].method = "POST"
        THEN /\ Step(p, "kv.get", "apiKeys:put")
             /\ loc' = [loc EXCEPT ![p].keys =
                          Put(existingKeys, req[p].provider, req[p].apiKey)]
        ELSE IF req[p].provider \in DOMAIN existingKeys
        THEN /\ Step(p, "kv.get", "apiKeys:put")
             /\ loc' = [loc EXCEPT ![p].keys = Drop(existingKeys, {req[p].provider})]
        ELSE Finish(p, "kv.get", Response(Ok, 404, "No API key found"))
  /\ UNCHANGED <<dbVars, blobs, uuidCount, ctxVars, issued, kv>>

\* await cfContext.storeApiKeys(DEFAULT_USER_ID, existingKeys)
RouteApiKeysPut(p, ok) ==
  /\ pc[p] = "apiKeys:put"
  /\ IF ok
     THEN /\ kv' = Put(kv, KvFullKey("apikeys", DefaultUserId),
                       [text |-> KvStringify(loc[p].keys), ttl |-> KvTtl("apikeys")])
          /\ Finish(p, "kv.put", Ok)
     ELSE /\ kv' = kv
          /\ Finish(p, "kv.put", Err("KV unavailable"))
  /\ UNCHANGED <<dbVars, blobs, uuidCount, ctxVars, issued>>

Providers == {"OpenAI", "Anthropic"}
ApiKeyValues == {"sk-1", "sk-2"}

\* Two requests to the api-keys route at the same time.
NextApiKeys ==
  \E p \in TwoProcs :
    \/ \E provider \in Providers \cup {UNDEF} : \E apiKey \in ApiKeyValues :
         CallRouteApiKeys(p, "POST", provider, apiKey)
    \/ \E provider \in Providers : CallRouteApiKeys(p, "DELETE", provider, UNDEF)
    \/ \E ok \in BOOLEAN : RouteApiKeysGet(p, ok)
    \/ \E ok \in BOOLEAN : RouteApiKeysPut(p, ok)

SpecApiKeys == InitReady /\ [][NextApiKeys]_vars

\* The key stored for a provider, or none.
StoredApiKey(store, provider) ==
  IF provider \in DOMAIN StoredApiKeys(store)
  THEN StoredApiKeys(store)[provider] ELSE UNDEF

\* C27 (as claimed): a POST or DELETE for one provider that reports success
\* leaves the stored key of every other provider as it is at that moment,
\* so that concurrent requests for different providers lose no update.
C27_NoLostCredentialUpdate ==
  [][\A p \in Procs :
       Succeeds(p, "apiKeys:put") =>
         \A other \in Providers \ {req[p].provider} :
           StoredApiKey(kv', other) = StoredApiKey(kv, other)]_vars

\* The object store with two requests at the same time.
NextStoreRace ==
  \E p \in TwoProcs :
    \/ \E k \in FileIds : CallStorageStoreFile(p, k, "hi", [tag |-> "x"])
    \/ \E ok \in BOOLEAN : StorageStoreFilePut(p, ok)
    \/ \E k \in FileIds : CallStorageDeleteFile(p, k)
    \/ \E ok \in BOOLEAN : StorageDeleteFileDelete(p, ok)
    \/ \E k \in FileIds : CallStorageUpdateFileMetadata(p, k, [tag |-> "y"])
    \/ \E ok \in BOOLEAN : StorageUpdateFileMetadataGet(p, ok)
    \/ \E ok \in BOOLEAN : StorageUpdateFileMetadataPut(p, ok)

SpecStoreRace == InitReady /\ [][NextStoreRace]_vars

\* C28 (as claimed): updateFileMetadata never creates a blob: its write
\* leaves a key that has no blob, because deleteFile removed it, without
\* blob, whatever the interleaving with the deleteFile call.
C28_UpdateNeverRecreates ==
  [][\A p \in Procs :
       (pc[p] = "storage.updateFileMetadata:put" /\ Stepped(p)
          /\ StorageFullKey(req[p].fileId) \notin DOMAIN blobs) =>
         StorageFullKey(req[p].fileId) \notin DOMAIN blobs']_vars

\* ------------------------------------------------------ deleteFile, retried
\* The last deleteFile of request p ended with an error: its caller repeats it.
MustRetry(p) ==
  /\ req[p].op = "deleteFile"
  /\ pc[p] = "done"
  /\ result[p].status = "error"

\* The caller repeats the failed call: deleteFile(id) again, or the DELETE
\* request to the delete-file route again.
RetryDeleteFile(p) ==
  /\ MustRetry(p)
  /\ IF req[p].route = "delete-file"
     THEN CallRouteDeleteFile(p, "DELETE", req[p].fileId)
     ELSE CallDeleteFile(p, req[p].fileId)

\* One caller stores files and deletes them with deleteFile, the other deletes
\* them through the delete-file route; each repeats a delete that failed
\* until one succeeds.
NextRetry ==
  \E p \in TwoProcs :
    \/ p = Writer /\ ~MustRetry(p) /\ CallStoreFile(p, "hi", "notes.txt", <<>>)
    \/ \E ok \in BOOLEAN : StoreFilePut(p, ok)
    \/ \E ok \in BOOLEAN : StoreFileInsert(p, ok)
    \/ p = Writer /\ ~MustRetry(p) /\ \E f \in KnownFileIds : CallDeleteFile(p, f)
    \/ p = Reader /\ ~MustRetry(p) /\ \E f \in KnownFileIds : CallRouteDeleteFile(p, "DELETE", f)
    \/ RetryDeleteFile(p)
    \/ \E ok \in BOOLEAN : RouteGetFileMetadata(p, ok)
    \/ \E ok \in BOOLEAN : DeleteFileBlob(p, ok)
    \/ \E ok \in BOOLEAN : DeleteFileRow(p, ok)

\* A failed delete is repeated, and no backend call of a delete fails for
\* ever: each succeeds at some attempt when attempted again and again.
FairRetry ==
  \A p \in TwoProcs :
    /\ WF_vars(RetryDeleteFile(p))
    /\ SF_vars(RouteGetFileMetadata(p, TRUE))
    /\ SF_vars(DeleteFileBlob(p, TRUE))
    /\ SF_vars(DeleteFileRow(p, TRUE))

SpecRetry == InitReady /\ [][NextRetry]_vars /\ FairRetry

\* deleteFile(f) of request p failed at its row delete, after its blob delete.
PartialDelete(p, f) ==
  /\ MustRetry(p)
  /\ req[p].fileId = f
  /\ Len(calls[p]) >= 2
  /\ SubSeq(calls[p], Len(calls[p]) - 1, Len(calls[p])) = <<"r2.delete", "d1.delete">>

\* C29: when deleteFile(f) has failed after its blob delete and before its
\* row delete, and the failed call is repeated until one succeeds with
\* backends that do not fail for ever, a state is reached where f has
\* neither blob nor row; and no step of a deleteFile(f) changes the blob or
\* the row of another file.
C29_RetryHeals ==
  /\ \A f \in FileIds :
       (\E p \in Procs : PartialDelete(p, f))
         ~> (f \notin DOMAIN blobs /\ f \notin DOMAIN files)
  /\ [][\A p \in Procs :
          (pc[p] \in {"deleteFile:r2", "deleteFile:d1"} /\ Stepped(p)) =>
            \A g \in FileIds \ {req[p].fileId} :
              /\ (g \in DOMAIN blobs) = (g \in DOMAIN blobs')
              /\ (g \in DOMAIN files) = (g \in DOMAIN files')
              /\ g \in DOMAIN blobs => blobs'[g] = blobs[g]
              /\ g \in DOMAIN files => files'[g] = files[g]]_vars

\* A deleteFile(f) has failed at its row delete: f has a row and no blob,
\* while another file has both.
C29_Witness ==
  \E p \in Procs : \E f, g \in FileIds :
    /\ PartialDelete(p, f)
    /\ f \in DOMAIN files /\ f \notin DOMAIN blobs
    /\ g # f /\ g \in DOMAIN files /\ g \in DOMAIN blobs

\* ------------------------------------------- root.tsx, failed initialize()
\* The context exists, its initialize() has not succeeded and none is in
\* flight: the initialize() of the request that created it has failed.
FailedInitialize ==
  /\ cfContext # "null"
  /\ ~initialized
  /\ \A q \in Procs : pc[q] # "initialize:exec"

\* Request p enters the root loader in this step.
EntersLoader(p) ==
  /\ Idle(p)
  /\ req'[p].op = "loader"
  /\ <<pc[p], req[p], result[p], calls[p]>> # <<pc'[p], req'[p], result'[p], calls'[p]>>

\* C30 (as claimed): after the initialize() of the request that created the
\* process-wide context has failed, a later request that enters the root
\* loader attempts schema initialization again.
C30_FailedInitializeRetried ==
  [][\A p \in Procs :
       (FailedInitialize /\ EntersLoader(p)) => pc'[p] = "initialize:exec"]_vars

\* ------------------------------------------------ deleteChat and the blobs
\* One request stream stores files and snapshots for chats while another
\* writes and deletes the chats.
NextChildren ==
  \E p \in TwoProcs :
    \/ p = Writer /\ \E c \in FileChats : CallStoreFile(p, "hi", "notes.txt", c)
    \/ \E ok \in BOOLEAN : StoreFilePut(p, ok)
    \/ \E ok \in BOOLEAN : StoreFileInsert(p, ok)
    \/ p = Writer /\ \E c \in FileChats : CallSetSnapshot(p, c, "snap")
    \/ \E ok \in BOOLEAN : SetSnapshotRun(p, ok)
    \/ p = Reader /\ \E c \in FileChats : CallSetMessages(p, c, <<>>, NULL, NULL, UNDEF, UNDEF)
    \/ \E ok \in BOOLEAN : SetMessagesRun(p, ok)
    \/ p = Reader /\ \E c \in FileChats : CallDeleteChat(p, c)
    \/ \E ok \in BOOLEAN : DeleteByIdRun(p, ok)

SpecChildren == InitReady /\ [][NextChildren]_vars

\* C31: deleteChat makes one relational call and no object-store call: the
\* step leaves every blob as it was, and when it succeeds every file of the
\* chat has lost its row (getFileMetadata and listFilesForChat no longer
\* report it) while a blob it had is still in the object store.
C31_DeleteChatKeepsBlobs ==
  [][\A p \in Procs :
       (pc[p] = "deleteById:run" /\ Stepped(p)) =>
          /\ blobs' = blobs
          /\ calls'[p] = <<"d1.delete">>
          /\ result'[p].status = "ok" =>
               /\ ListFilesForChat(req[p].id)' = {}
               /\ \A f \in ListFilesForChat(req[p].id) :
                    /\ f \notin DOMAIN files'
                    /\ f \in DOMAIN blobs => f \in DOMAIN blobs']_vars

\* A deleteChat(c) has succeeded on a chat with a stored file: the file's
\* blob is in the object store and no row describes it.
C31_Witness ==
  \E p \in Procs : \E f \in DOMAIN blobs :
     /\ req[p].op = "deleteChat"
     /\ pc[p] = "done" /\ result[p].status = "ok"
     /\ blobs[f].customMetadata.chatId = req[p].id
     /\ f \notin DOMAIN files
     /\ req[p].id \notin DOMAIN chats
     /\ \A q \in Procs : req[q].op = "storeFile" => (pc[q] = "done" /\ result[q].status = "ok")
     /\ \E q \in Procs : req[q].op = "storeFile" /\ loc[q].fileId = f

\* ------------------------------------- updateChatDescription / Metadata
\* A partial update that also refreshes the row's timestamp.
UpdatedRowTouched(row, field, value) ==
  [[row EXCEPT ![field] = value] EXCEPT !.timestamp = NOW]

\* UPDATE chats SET <field> = ? WHERE id = ?: the row after the statement.
UpdatedRow(row, field, value) == [row EXCEPT ![field] = value]

\* The chats table after UPDATE chats SET <field> = ? WHERE id = ?: no row
\* matches an unknown id and the statement changes nothing.
UpdateChats(rows, id, field, value) ==
  IF id \in DOMAIN rows
  THEN [rows EXCEPT ![id] = UpdatedRow(rows[id], field, value)]
  ELSE rows

\* updateChatDescription(db, id, description)
CallUpdateChatDescription(p, id, description) ==
  /\ cfContext # "null"
  /\ Start(p, [NoReq EXCEPT !.op = "updateChatDescription", !.id = id,
                            !.description = description], NoLoc,
           "updateChatDescription:run")
  /\ UNCHANGED <<dbVars, blobs, uuidCount, ctxVars, issued, kv>>

\* await db.prepare('UPDATE chats SET description = ? WHERE id = ?')...run()
UpdateChatDescriptionRun(p, ok) ==
  /\ pc[p] = "updateChatDescription:run"
  /\ IF D1Error(ok, "chats") = ""
     THEN /\ chats' = UpdateChats(chats, req[p].id, "description", req[p].description)
          /\ Finish(p, "d1.update", Ok)
     ELSE /\ chats' = chats
          /\ Finish(p, "d1.update", Err(D1Error(ok, "chats")))
  /\ UNCHANGED <<tables, snapshots, files, blobs, uuidCount, ctxVars, issued, kv>>

\* updateChatMetadata(db, id, metadata)
CallUpdateChatMetadata(p, id, metadata) ==
  /\ cfContext # "null"
  /\ Start(p, [NoReq EXCEPT !.op = "updateChatMetadata", !.id = id,
                            !.metadata = metadata], NoLoc,
           "updateChatMetadata:run")
  /\ UNCHANGED <<dbVars, blobs, uuidCount, ctxVars, issued, kv>>

\* metadataStr = metadata ? JSON.stringify(metadata) : null;
\* await db.prepare('UPDATE chats SET metadata = ? WHERE id = ?')...run()
UpdateChatMetadataRun(p, ok) ==
  /\ pc[p] = "updateChatMetadata:run"
  /\ IF D1Error(ok, "chats") = ""
     THEN /\ chats' = UpdateChats(chats, req[p].id, "metadata",
                                  MetadataStr(req[p].metadata))
          /\ Finish(p, "d1.update", Ok)
     ELSE /\ chats' = chats
          /\ Finish(p, "d1.update", Err(D1Error(ok, "chats")))
  /\ UNCHANGED <<tables, snapshots, files, blobs, uuidCount, ctxVars, issued, kv>>

\* Descriptions and metadata values passed to the partial updates.
UpdateDescriptions == {<<"demo">>, <<"renamed">>, <<>>}
UpdateMetadata == {"metaA", "metaB", UNDEF}

\* The setMessages arguments that write the chats to be updated.
UpdateSeeds == {a \in SetArgs : a.timestamp \in {T1, UNDEF}}

\* Chats written by setMessages and then updated field by field.
NextUpdate ==
  \E p \in {1} :
    \/ \E id \in TwoChats : \E a \in UpdateSeeds :
         CallSetMessages(p, id, a.messages, a.urlId, a.description,
                         a.timestamp, a.metadata)
    \/ \E ok \in BOOLEAN : SetMessagesRun(p, ok)
    \/ \E id \in TwoChats : \E d \in UpdateDescriptions :
         CallUpdateChatDescription(p, id, d)
    \/ \E ok \in BOOLEAN : UpdateChatDescriptionRun(p, ok)
    \/ \E id \in TwoChats : \E m \in UpdateMetadata :
         CallUpdateChatMetadata(p, id, m)
    \/ \E ok \in BOOLEAN : UpdateChatMetadataRun(p, ok)

SpecUpdate == InitReady /\ [][NextUpdate]_vars

\* Row id of rows2 equals row id of rows1 in every column but field.
OnlyFieldChanged(rows1, rows2, id, field) ==
  \A c \in {"urlId", "messages", "description", "timestamp", "metadata"} \ {field} :
    rows2[id][c] = rows1[id][c]

\* C35: a successful updateChatDescription(id, d) leaves chat id with
\* description d and a successful updateChatMetadata(id, m) leaves it with
\* metadata m; messages, urlId, timestamp and the other field of the chat
\* and every other chat are unchanged; on an id without row the call
\* succeeds and the table is unchanged; a failed call changes nothing.
C35_PartialUpdates ==
  [][\A p \in Procs :
       (pc[p] \in {"updateChatDescription:run", "updateChatMetadata:run"} /\ Stepped(p)) =>
         LET id == req[p].id
             field == IF pc[p] = "updateChatDescription:run"
                      THEN "description" ELSE "metadata"
         IN /\ DOMAIN chats' = DOMAIN chats
            /\ \A c \in DOMAIN chats \ {id} : chats'[c] = chats[c]
            /\ id \in DOMAIN chats => OnlyFieldChanged(chats, chats', id, field)
            /\ (result'[p].status = "ok" /\ id \in DOMAIN chats) =>
                 IF field = "description"
                 THEN ChatItem(id, chats'[id]).description = req[p].description
                 ELSE ChatItem(id, chats'[id]).metadata = req[p].metadata
            /\ result'[p].status # "ok" => chats' = chats
            /\ (id \notin DOMAIN chats /\ "chats" \in tables /\ result'[p].error # "D1 unavailable")
                 => result'[p].status = "ok"]_vars

\* A description update and a metadata update have each changed a chat
\* that has messages, a urlId and the other field set, with a second chat
\* present.
C35_Witness ==
  \E p \in Procs : \E id \in DOMAIN chats :
    /\ req[p].op = "updateChatMetadata" /\ req[p].id = id
    /\ pc[p] = "done" /\ result[p].status = "ok"
    /\ chats[id].metadata = MetadataStr("metaB")
    /\ chats[id].description = <<"renamed">>
    /\ chats[id].urlId # NULL
    /\ chats[id].messages = JSONstringify(MPlain)
    /\ \E c \in DOMAIN chats : c # id

\* --------------------------------------------- backend failures, all stores
\* No call has written to the key-value store, the bucket, the database.
KvFresh == DOMAIN kv = {}
BucketFresh == DOMAIN blobs = {} /\ uuidCount = 0
DbFresh == DOMAIN chats = {} /\ DOMAIN snapshots = {}

\* Operations of the key-value store, the object store, the relational
\* functions and the file manager, one call at a time, each backend call of
\* which may fail.  A run stays with the layer it first wrote through.
NextFailures ==
  \E p \in {1} :
    \/ BucketFresh /\ DbFresh /\ CallKvSet(p, "raw", <<"k">>, "v1")
    \/ \E ok \in BOOLEAN : KvPut(p, ok)
    \/ BucketFresh /\ DbFresh /\ CallKvGet(p, "raw", <<"k">>)
    \/ \E ok \in BOOLEAN : KvGet(p, ok)
    \/ BucketFresh /\ DbFresh /\ CallKvDelete(p, "raw", <<"k">>)
    \/ \E ok \in BOOLEAN : KvDelete(p, ok)
    \/ KvFresh /\ DbFresh /\ uuidCount = 0 /\ CallStorageStoreFile(p, 1, "hello", [tag |-> "y"])
    \/ \E ok \in BOOLEAN : StorageStoreFilePut(p, ok)
    \/ KvFresh /\ DbFresh /\ uuidCount = 0 /\ CallStorageGetFile(p, 1)
    \/ \E ok \in BOOLEAN : StorageGetFileGet(p, ok)
    \/ KvFresh /\ DbFresh /\ uuidCount = 0 /\ CallStorageDeleteFile(p, 1)
    \/ \E ok \in BOOLEAN : StorageDeleteFileDelete(p, ok)
    \/ KvFresh /\ DbFresh /\ uuidCount = 0 /\ CallStorageListFiles(p)
    \/ \E ok \in BOOLEAN : StorageListFilesList(p, ok)
    \/ KvFresh /\ DbFresh /\ uuidCount = 0 /\ CallStorageGetFileMetadata(p, 1)
    \/ \E ok \in BOOLEAN : StorageGetFileMetadataHead(p, ok)
    \/ KvFresh /\ DbFresh /\ uuidCount = 0 /\ CallStorageUpdateFileMetadata(p, 1, [tag |-> "y"])
    \/ \E ok \in BOOLEAN : StorageUpdateFileMetadataGet(p, ok)
    \/ \E ok \in BOOLEAN : StorageUpdateFileMetadataPut(p, ok)
    \/ KvFresh /\ BucketFresh /\ CallSetMessages(p, <<"1">>, MPlain, NULL, NULL, UNDEF, UNDEF)
    \/ \E ok \in BOOLEAN : SetMessagesRun(p, ok)
    \/ KvFresh /\ BucketFresh /\ CallGetMessages(p, <<"1">>)
    \/ \E ok \in BOOLEAN : GetMessagesById(p, ok)
    \/ \E ok \in BOOLEAN : GetMessagesByUrlId(p, ok)
    \/ KvFresh /\ BucketFresh /\ CallDeleteChat(p, <<"1">>)
    \/ \E ok \in BOOLEAN : DeleteByIdRun(p, ok)
    \/ KvFresh /\ BucketFresh /\ CallUpdateChatDescription(p, <<"1">>, <<"renamed">>)
    \/ \E ok \in BOOLEAN : UpdateChatDescriptionRun(p, ok)
    \/ KvFresh /\ BucketFresh /\ CallUpdateChatMetadata(p, <<"1">>, "metaB")
    \/ \E ok \in BOOLEAN : UpdateChatMetadataRun(p, ok)
    \/ KvFresh /\ BucketFresh /\ CallSetSnapshot(p, <<"1">>, "snap")
    \/ \E ok \in BOOLEAN : SetSnapshotRun(p, ok)
    \/ KvFresh /\ BucketFresh /\ CallGetSnapshot(p, <<"1">>)
    \/ \E ok \in BOOLEAN : GetSnapshotRun(p, ok)
    \/ KvFresh /\ BucketFresh /\ CallDeleteSnapshot(p, <<"1">>)
    \/ \E ok \in BOOLEAN : DeleteSnapshotRun(p, ok)
    \/ KvFresh /\ BucketFresh /\ DbFresh /\ CallCreateChat(p, <<"demo">>, MPlain, UNDEF)
    \/ \E ok \in BOOLEAN : CreateGetNextId(p, ok)
    \/ \E ok \in BOOLEAN : CreateGetUrlId(p, ok)
    \/ \E ok \in BOOLEAN : CreateSetMessages(p, ok)
    \/ KvFresh /\ DbFresh /\ CallStoreFile(p, "hi", PathNotes, NULL)
    \/ \E ok \in BOOLEAN : StoreFilePut(p, ok)
    \/ \E ok \in BOOLEAN : StoreFileInsert(p, ok)
    \/ KvFresh /\ DbFresh /\ \E f \in KnownFileIds : CallDeleteFile(p, f)
    \/ \E ok \in BOOLEAN : DeleteFileBlob(p, ok)
    \/ \E ok \in BOOLEAN : DeleteFileRow(p, ok)
    \/ KvFresh /\ DbFresh /\ CallSearchFilesByPath(p, <<"t", "x", "t">>)
    \/ \E ok \in BOOLEAN : SearchFilesByPathRun(p, ok)

SpecFailures == InitReady /\ [][NextFailures]_vars

\* The backend call that request p awaits fails in this step.
BackendCallFails(p) ==
  \/ KvPut(p, FALSE) \/ KvGet(p, FALSE) \/ KvDelete(p, FALSE)
  \/ StorageStoreFilePut(p, FALSE) \/ StorageGetFileGet(p, FALSE)
  \/ StorageDeleteFileDelete(p, FALSE) \/ StorageListFilesList(p, FALSE)
  \/ StorageGetFileMetadataHead(p, FALSE)
  \/ StorageUpdateFileMetadataGet(p, FALSE) \/ StorageUpdateFileMetadataPut(p, FALSE)
  \/ SetMessagesRun(p, FALSE) \/ GetMessagesById(p, FALSE) \/ GetMessagesByUrlId(p, FALSE)
  \/ DeleteByIdRun(p, FALSE)
  \/ UpdateChatDescriptionRun(p, FALSE) \/ UpdateChatMetadataRun(p, FALSE)
  \/ SetSnapshotRun(p, FALSE) \/ GetSnapshotRun(p, FALSE) \/ DeleteSnapshotRun(p, FALSE)
  \/ CreateGetNextId(p, FALSE) \/ CreateGetUrlId(p, FALSE) \/ CreateSetMessages(p, FALSE)
  \/ StoreFilePut(p, FALSE) \/ StoreFileInsert(p, FALSE)
  \/ DeleteFileBlob(p, FALSE) \/ DeleteFileRow(p, FALSE)
  \/ SearchFilesByPathRun(p, FALSE)

\* The errors of a backend that is down.
BackendErrors == {"KV unavailable", "R2 unavailable", "D1 unavailable"}

\* C32: when the backend call an operation of the key-value store, the
\* object store, the relational functions or the file manager awaits fails,
\* the operation is over with that call as its last one and ends with the
\* backend's error: it reports neither success nor an absent result, and it
\* changes no store.
C32_FailurePropagates ==
  [][\A p \in Procs :
       BackendCallFails(p) =>
         /\ pc'[p] = "done"
         /\ Len(calls'[p]) = Len(calls[p]) + 1
         /\ result'[p].status = "error"
         /\ result'[p].error \in BackendErrors
         /\ <<chats, snapshots, files, blobs, kv>>' = <<chats, snapshots, files, blobs, kv>>]_vars

\* A storeFile has ended with the error of its failed row insert after a
\* successful blob write, with another file stored.
C32_Witness ==
  \E p \in Procs :
    /\ req[p].op = "storeFile"
    /\ pc[p] = "done"
    /\ result[p].status = "error" /\ result[p].error = "D1 unavailable"
    /\ calls[p] = <<"r2.put", "d1.insert">>
    /\ "files" \in tables
    /\ DOMAIN files # {}
    /\ loc[p].fileId \in DOMAIN blobs

\* ------------------------------------------------ api.api-keys loader
Stars == <<"*", "*", "*", "*", "*", "*", "*", "*">>
Dots == <<".", ".", ".">>

\* key.length > 8 ? `${key.substring(0, 4)}...${key.substring(key.length - 4)}`
\*                : '********'
Mask(key) ==
  IF Len(key) > 8
  THEN SubSeq(key, 1, 4) \o Dots \o SubSeq(key, Len(key) - 3, Len(key))
  ELSE Stars

\* for (const [provider, key] of Object.entries(apiKeys)) maskedKeys[provider] = ...
MaskedKeys(apiKeys) == [provider \in DOMAIN apiKeys |-> Mask(apiKeys[provider])]

\* The loader up to its backend call; hook tells whether the request is
\* the fetch('/api/api-keys') of useCloudflareApiKeys.getApiKeys.
CallRouteApiKeysLoader(p, hook) ==
  /\ LET r == [NoReq EXCEPT !.op = IF hook THEN "useCloudflareApiKeys.getApiKeys"
                                   ELSE "apiKeysLoader",
                            !.route = "api-keys-list"]
     IN IF cfContext = "null"
        THEN Reply(p, r, HookReturn(hook, Response(Ok, 500, "KV storage not available")))
        ELSE Start(p, r, NoLoc, "apiKeysLoader:get")
  /\ UNCHANGED <<dbVars, blobs, uuidCount, ctxVars, issued, kv>>

\* const apiKeys = await cfContext.getApiKeys(DEFAULT_USER_ID) || {}; the
\* masking loop and the response, or the catch block; then, for the hook,
\* its code after the fetch.
RouteApiKeysLoaderGet(p, ok) ==
  /\ pc[p] = "apiKeysLoader:get"
  /\ pc' = [pc EXCEPT ![p] = "done"]
  /\ calls' = [calls EXCEPT ![p] = Append(@, "kv.get")]
  /\ result' = [result EXCEPT ![p] =
        HookReturn(req[p].op = "useCloudflareApiKeys.getApiKeys",
                   Respond(req[p],
                           IF ok THEN [Ok EXCEPT !.maskedKeys = MaskedKeys(StoredApiKeys(kv))]
                           ELSE Err("KV unavailable")))]
  /\ UNCHANGED <<req, loc, dbVars, blobs, uuidCount, ctxVars, issued, kv>>

\* Credentials of several shapes.
SecretKeys ==
  { <<"s", "k", "-", "1">>,
    Stars,
    <<"s", "k", "-", "A", "x", "w", "x", "y", "z">>,
    <<"s", "k", "-", "A", "q", "w", "x", "y", "z">>,
    <<"s", "k", "-", "A", ".", ".", ".", "w", "x", "y", "z">> }

\* Credentials are stored through the route's action and listed through its
\* loader, by a direct request or by the hook, one request at a time.
NextListing ==
  \E p \in {1} :
    \/ CallLoader(p)
    \/ \E ok \in BOOLEAN : InitializeExec(p, ok)
    \/ \E provider \in Providers : \E apiKey \in SecretKeys :
         CallRouteApiKeys(p, "POST", provider, apiKey)
    \/ \E ok \in BOOLEAN : RouteApiKeysGet(p, ok)
    \/ \E ok \in BOOLEAN : RouteApiKeysPut(p, ok)
    \/ \E hook \in BOOLEAN : CallRouteApiKeysLoader(p, hook)
    \/ \E ok \in BOOLEAN : RouteApiKeysLoaderGet(p, ok)

SpecListing == Init /\ [][NextListing]_vars

\* C33 (as claimed): when the context was available and the key-value read
\* of a listing then fails, the caller of the listing receives an error: an
\* error response from the loader, a thrown error from the hook.
C33_ListingFailureNotMasked ==
  [][\A p \in Procs :
       RouteApiKeysLoaderGet(p, FALSE) =>
         IF req[p].op = "useCloudflareApiKeys.getApiKeys"
         THEN result'[p].status = "error"
         ELSE result'[p].http >= 400]_vars

\* C39 (as claimed): no value of maskedKeys in a loader response equals the
\* stored key of its provider; a key of 8 characters or fewer is shown as
\* '********'; two keys longer than 8 characters with the same first 4 and
\* last 4 characters are shown alike.
C39_NoCompleteSecret ==
  [][\A p \in Procs :
       (RouteApiKeysLoaderGet(p, TRUE) /\ req[p].op = "apiKeysLoader") =>
         /\ DOMAIN result'[p].maskedKeys = DOMAIN StoredApiKeys(kv)
         /\ \A provider \in DOMAIN StoredApiKeys(kv) :
              LET key == StoredApiKeys(kv)[provider]
                  shown == result'[p].maskedKeys[provider]
              IN /\ shown # key
                 /\ Len(key) <= 8 => shown = Stars
                 /\ \A other \in SecretKeys :
                      ( /\ Len(key) > 8 /\ Len(other) > 8
                        /\ SubSeq(other, 1, 4) = SubSeq(key, 1, 4)
                        /\ SubSeq(other, Len(other) - 3, Len(other))
                             = SubSeq(key, Len(key) - 3, Len(key)) )
                      => Mask(other) = shown]_vars

\* ------------------------------------------------------ no dangling child
\* C34: on a database set up by initialize() every snapshot row and every
\* file row with a non-null chatId refers to a chat that exists; the row
\* write of a setSnapshot or storeFile that names a chat without row fails
\* and adds no row.
C34_NoDanglingChildren ==
  /\ [](/\ \A c \in DOMAIN snapshots : c \in DOMAIN chats
        /\ \A f \in DOMAIN files :
             files[f].chatId # NULL => files[f].chatId \in DOMAIN chats)
  /\ [][\A p \in Procs :
          ( /\ pc[p] \in {"setSnapshot:run", "storeFile:insert"}
            /\ Stepped(p)
            /\ req[p].chatId \notin DOMAIN chats ) =>
              /\ result'[p].status = "error"
              /\ snapshots' = snapshots
              /\ files' = files]_vars

\* A storeFile naming a chat without row has failed on the foreign key
\* while another chat has a snapshot and a file row.
C34_Witness ==
  \E p \in Procs : \E c \in DOMAIN snapshots : \E f \in DOMAIN files :
    /\ req[p].op = "storeFile"
    /\ pc[p] = "done"
    /\ result[p].error = "FOREIGN KEY constraint failed"
    /\ req[p].chatId \notin DOMAIN chats
    /\ files[f].chatId = c
    /\ loc[p].fileId \notin DOMAIN files

\* ------------------------------------------------ object-store key paths
\* Keys with and without runs of separators.
StorageKeys ==
  { <<"a", "/", "b">>, <<"a", "/", "/", "b">>, <<"a", "/", "/", "/", "b">>,
    <<"/", "a">>, <<"/", "/", "a">>, <<"a">> }

\* The context's object store called with path-like keys, one call at a time.
NextKeys ==
  \E p \in {1} :
    \/ \E k \in StorageKeys : \E d \in StorageData : CallStorageStoreFile(p, k, d, EmptyFn)
    \/ \E ok \in BOOLEAN : StorageStoreFilePut(p, ok)
    \/ \E k \in StorageKeys : CallStorageGetFile(p, k)
    \/ \E ok \in BOOLEAN : StorageGetFileGet(p, ok)
    \/ \E k \in StorageKeys : CallStorageDeleteFile(p, k)
    \/ \E ok \in BOOLEAN : StorageDeleteFileDelete(p, ok)

SpecKeys == InitReady /\ [][NextKeys]_vars

\* No two adjacent separators.
NoSeparatorRun(text) ==
  \A i \in 1..(Len(text) - 1) : ~(text[i] = "/" /\ text[i + 1] = "/")

\* C36 (as claimed): every backend key the object store uses has no two
\* adjacent '/' characters, so keys that differ only in runs of separators
\* address the same blob.
C36_KeysCollapsed == \A k \in DOMAIN blobs : NoSeparatorRun(k)

\* C37: a root loader constructs a context only when the process has none,
\* and a context once set stays: the reference never changes to another
\* instance (whose initialized flag would start from false) or back to
\* null, under any interleaving of loader requests.
C37_OneContext ==
  [][/\ cfContext # "null" => cfContext' = cfContext
     /\ initialized => initialized'
     /\ \A p \in Procs :
          (EntersLoader(p) /\ pc'[p] = "initialize:exec") =>
             (cfContext = "null" /\ cfContext' # "null")]_vars

\* Two loader requests have run: the first constructed the context and its
\* initialize() is still awaited when the second returns without one.
C37_Witness ==
  \E p, q \in Procs :
    /\ req[p].op = "loader" /\ pc[p] = "initialize:exec"
    /\ req[q].op = "loader" /\ pc[q] = "done" /\ calls[q] = <<>>
    /\ cfContext = "ctx"

\* ------------------------------------------------ getUrlId, loop by loop
\* getUrlId(db, id) with its while loop taken one test at a time.
CallGetUrlIdLoop(p, id) ==
  /\ cfContext # "null"
  /\ Start(p, [NoReq EXCEPT !.op = "getUrlId", !.id = id], NoLoc, "getUrlId:list")
  /\ UNCHANGED <<dbVars, blobs, uuidCount, ctxVars, issued, kv>>

\* const idList = await getUrlIds(db); if (!idList.includes(id)) return id;
\* else let i = 2
GetUrlIdList(p, ok) ==
  /\ pc[p] = "getUrlId:list"
  /\ IF D1Error(ok, "chats") # ""
     THEN Finish(p, "d1.select", Err(D1Error(ok, "chats")))
     ELSE IF req[p].id \notin GetUrlIds(chats)
     THEN Finish(p, "d1.select", [Ok EXCEPT !.urlId = req[p].id])
     ELSE /\ Step(p, "d1.select", "getUrlId:while")
          /\ loc' = [loc EXCEPT ![p].idList = GetUrlIds(chats), ![p].i = 2]
  /\ UNCHANGED <<dbVars, blobs, uuidCount, ctxVars, issued, kv>>

\* A loop body that leaves i as it is.
NextSuffixSame(i) == i

\* i++
NextSuffix(i) == i + 1

\* while (idList.includes(`${id}-${i}`)) { i++; }  return `${id}-${i}`;
GetUrlIdWhile(p) ==
  /\ pc[p] = "getUrlId:while"
  /\ IF (req[p].id \o <<"-">> \o Str(loc[p].i)) \in loc[p].idList
     THEN /\ loc' = [loc EXCEPT ![p].i = NextSuffix(loc[p].i)]
          /\ UNCHANGED <<pc, req, result, calls>>
     ELSE /\ pc' = [pc EXCEPT ![p] = "done"]
          /\ result' = [result EXCEPT ![p] =
                          [Ok EXCEPT !.urlId = req[p].id \o <<"-">> \o Str(loc[p].i)]]
          /\ UNCHANGED <<req, loc, calls>>
  /\ UNCHANGED <<dbVars, blobs, uuidCount, ctxVars, issued, kv>>

\* getUrlId called on stores with taken urlIds and suffixes.
NextLoop ==
  \E p \in {1} :
    \/ \E id \in {<<"5">>, <<"7">>, <<"1">>} : CallGetUrlIdLoop(p, id)
    \/ \E ok \in BOOLEAN : GetUrlIdList(p, ok)
    \/ GetUrlIdWhile(p)

\* The loop is synchronous code: once entered it keeps running.
SpecLoop == InitAlloc /\ [][NextLoop]_vars /\ \A p \in {1} : WF_vars(GetUrlIdWhile(p))

\* C38: for every candidate id and every set of existing urlIds the suffix
\* loop of getUrlId, once entered, ends and returns a value: the counter
\* never passes the number of existing urlIds plus 2, and the call reaches
\* its return with the urlId getUrlId computes.
C38_GetUrlIdTerminates ==
  /\ [](\A p \in Procs :
          pc[p] = "getUrlId:while" =>
             loc[p].i \in 2..(Cardinality(loc[p].idList) + 2))
  /\ \A p \in Procs :
       (pc[p] = "getUrlId:while") ~>
          (pc[p] = "done" /\ result[p].status = "ok"
             /\ result[p].urlId = GetUrlId(chats, req[p].id))

\* The loop has run past two taken suffixes and returned the third.
C38_Witness ==
  \E p \in Procs :
    /\ req[p].op = "getUrlId" /\ pc[p] = "done" /\ result[p].status = "ok"
    /\ loc[p].i = 4
    /\ loc[p].idList = {<<"5">>, <<"5", "-", "2">>, <<"5", "-", "3">>}
    /\ result[p].urlId = <<"5", "-", "4">>

====
